---- MODULE Spec2Model ----
(***************************************************************************)
(* A model of package cluster (soniakeys/cluster): the DistanceMatrix      *)
(* predicates (Square, NonNegative, Symmetric, ZeroDiagonal,               *)
(* TriangleInequality, Validate, Additive) and the three tree builders     *)
(* (AdditiveTree, Ultrametric, NeighborJoin).                              *)
(*                                                                         *)
(* Conventions.  A Go slice is a function with domain 0..len-1, so every   *)
(* index of the model is the index of the code.  A float64 is a pair       *)
(* <<num, den>>: a rational in lowest terms with den > 0, +Inf is <<1, 0>> *)
(* and NaN is <<0, 0>>.  Arithmetic is exact: rounding is not modelled,    *)
(* and the inputs are small integers.                                      *)
(***************************************************************************)
EXTENDS Integers, Sequences, FiniteSets, TLC

VARIABLES
  d,        \* the caller's DistanceMatrix
  d0,       \* Validation: the matrix as first constructed, before the caller changed it
  mut,      \* the one change the caller made to d0 to obtain d
  rnd,      \* RandomAdditiveMatrix: the outcomes of its random draws
  cast,     \* SimilarityMatrix.CAST: its arguments, locals and position
  res,      \* the value returned by the last call (op |-> "none" before any call)
  pc,       \* position of the running builder ("idle" when none runs)
  dm,       \* the receiver of NeighborJoinD or UltrametricD
  recv,     \* what the storage of dm shares with the caller's matrix
  td,       \* NeighborJoinD: total-distance vector
  nx,       \* NeighborJoinD: node number of each matrix index
  nextNode, \* NeighborJoinD: argument m of the running call of nj
  frames,   \* NeighborJoinD: locals of the calls of nj waiting for their recursive call
  tree,     \* NeighborJoinD: the adjacency list
  wt,       \* NeighborJoinD: the weight list
  cdf,      \* UltrametricD: the cluster distance function asked for
  pl,       \* UltrametricD: the parent list
  ul,       \* UltrametricD: the labels of the parent list
  clusters, \* UltrametricD: the matrix indexes of the clusters available for merging
  cx,       \* UltrametricD: node number of each matrix index
  t,        \* AdditiveTree: the adjacency list
  edgeWts,  \* AdditiveTree: the weight list
  leaf      \* AdditiveTree: argument n of the call of ap about to insert its leaf

njVars == <<td, nx, nextNode, frames, tree, wt>>
umVars == <<cdf, pl, ul, clusters, cx>>
apVars == <<t, edgeWts, leaf>>
work == <<pc, dm, recv, njVars, umVars, apVars>>
vars == <<d, d0, mut, rnd, cast, res, work>>

---------------------------------------------------------------------------
(* float64                                                                 *)

NaN == <<0, 0>>
PosInf == <<1, 0>>
F(n) == <<n, 1>>

Abs(x) == IF x < 0 THEN 0 - x ELSE x

RECURSIVE GCD(_, _)
GCD(a, b) == IF b = 0 THEN a ELSE GCD(b, a % b)

\* the float64 with value n/m, m # 0
Rat(n, m) ==
  LET s == IF m < 0 THEN 0 - 1 ELSE 1
      g == GCD(Abs(n), Abs(m))
  IN  <<(s * n) \div g, (s * m) \div g>>

IsNaN(a) == a = NaN
IsFinite(a) == a[2] # 0

\* a + b, a - b, a * b, a / b on finite operands; anything else the model
\* meets is a NaN operand, and the result is NaN
FAdd(a, b) == IF IsFinite(a) /\ IsFinite(b) THEN Rat(a[1] * b[2] + b[1] * a[2], a[2] * b[2]) ELSE NaN
FSub(a, b) == IF IsFinite(a) /\ IsFinite(b) THEN Rat(a[1] * b[2] - b[1] * a[2], a[2] * b[2]) ELSE NaN
FMul(a, b) == IF IsFinite(a) /\ IsFinite(b) THEN Rat(a[1] * b[1], a[2] * b[2]) ELSE NaN
FDiv(a, b) == IF IsFinite(a) /\ IsFinite(b) /\ b[1] # 0 THEN Rat(a[1] * b[2], a[2] * b[1]) ELSE NaN

\* a < b, a == b, a > b: false whenever an operand is NaN
FLt(a, b) == ~IsNaN(a) /\ ~IsNaN(b) /\ a[1] * b[2] < b[1] * a[2]
FEq(a, b) == ~IsNaN(a) /\ ~IsNaN(b) /\ a[1] * b[2] = b[1] * a[2]
FGt(a, b) == FLt(b, a)

---------------------------------------------------------------------------
(* slices                                                                  *)

Size(s) == Cardinality(DOMAIN s)
Idx(s) == 0 .. (Size(s) - 1)
\* append(s, x)
Push(s, x) == [i \in 0 .. Size(s) |-> IF i < Size(s) THEN s[i] ELSE x]
\* s[:Size(s)-1]
DropLast(s) == [i \in 0 .. (Size(s) - 2) |-> s[i]]

---------------------------------------------------------------------------
(* DistanceMatrix predicates                                               *)

Square(m) == \A i \in Idx(m) : Size(m[i]) = Size(m)

NonNegative(m) == \A i \in Idx(m) : \A j \in Idx(m[i]) : ~FLt(m[i][j], F(0))

\* a symmetry test written "dij != d[j][i]": two NaNs pass as equal cells
SymmetricNaNBlind(m) == \A i \in Idx(m) : \A j \in 0 .. (i - 1) : m[i][j] = m[j][i]

Symmetric(m) == \A i \in Idx(m) : \A j \in 0 .. (i - 1) : FEq(m[i][j], m[j][i])

\* a diagonal test written "di[i] > 0": a NaN or negative diagonal passes
ZeroDiagonalPositiveOnly(m) == \A i \in Idx(m) : ~FGt(m[i][i], F(0))

ZeroDiagonal(m) == \A i \in Idx(m) : FEq(m[i][i], F(0))

\* the three nested loops of TriangleInequality, resumed at (i, k, j)
RECURSIVE TriScan(_, _, _, _)
TriScan(m, i, k, j) ==
  IF i >= Size(m) THEN [ok |-> TRUE, i |-> 0, j |-> 0, k |-> 0]
  ELSE IF k >= i THEN TriScan(m, i + 1, 0, 0)
  ELSE IF j >= Size(m[i]) THEN TriScan(m, i, k + 1, 0)
  ELSE IF FLt(FAdd(m[i][j], m[k][j]), m[i][k]) THEN [ok |-> FALSE, i |-> i, j |-> j, k |-> k]
  ELSE TriScan(m, i, k, j + 1)

\* TriangleInequality returning its indices in the order i, k, j
TriangleInequalitySwapped(m) ==
  LET r == TriScan(m, 0, 0, 0) IN [r EXCEPT !.j = r.k, !.k = r.j]

TriangleInequality(m) == TriScan(m, 0, 0, 0)

NoError == [msg |-> "nil", idx |-> <<>>]
Error(s) == [msg |-> s, idx |-> <<>>]

\* Validate with the diagonal tested before the symmetry
ValidateDiagonalFirst(m) ==
  IF ~Square(m) THEN Error("not square")
  ELSE IF ~NonNegative(m) THEN Error("negative element")
  ELSE IF ~ZeroDiagonal(m) THEN Error("non-zero diagonal")
  ELSE IF ~Symmetric(m) THEN Error("not symmetric")
  ELSE LET ti == TriangleInequality(m) IN
       IF ~ti.ok
       THEN [msg |-> "triangle inequality not satisfied",
             idx |-> <<ti.i, ti.j, ti.j, ti.k, ti.i, ti.k>>]
       ELSE NoError

Validate(m) ==
  IF ~Square(m) THEN Error("not square")
  ELSE IF ~NonNegative(m) THEN Error("negative element")
  ELSE IF ~Symmetric(m) THEN Error("not symmetric")
  ELSE IF ~ZeroDiagonal(m) THEN Error("non-zero diagonal")
  ELSE LET ti == TriangleInequality(m) IN
       IF ~ti.ok
       THEN [msg |-> "triangle inequality not satisfied",
             idx |-> <<ti.i, ti.j, ti.j, ti.k, ti.i, ti.k>>]
       ELSE NoError

---------------------------------------------------------------------------
(* Additive: the four-point test                                           *)

\* the test of one quadruple written "if s1 > s2" with no swap before it
AdditiveFailsNoSwap(s1, s2, s3) == FGt(s1, s2)

\* the switch of Additive and the test after it: swap so that s1 is the sum
\* that differs, then fail when s1 > s2
AdditiveFails(s1, s2, s3) ==
  IF FEq(s1, s2) THEN FGt(s3, s2)
  ELSE IF FEq(s1, s3) THEN FGt(s2, s1)
  ELSE FGt(s1, s2)

\* the four nested loops of Additive, resumed at (i, j, k, l)
RECURSIVE AddScan(_, _, _, _, _)
AddScan(m, i, j, k, l) ==
  IF i >= Size(m) THEN [ok |-> TRUE, i |-> 0, j |-> 0, k |-> 0, l |-> 0]
  ELSE IF j >= i THEN AddScan(m, i + 1, 0, 0, 0)
  ELSE IF k >= j THEN AddScan(m, i, j + 1, 0, 0)
  ELSE IF l >= Size(m[i]) THEN AddScan(m, i, j, k + 1, 0)
  ELSE IF AdditiveFails(FAdd(m[i][j], m[k][l]), FAdd(m[i][k], m[j][l]), FAdd(m[i][l], m[j][k]))
       THEN [ok |-> FALSE, i |-> i, j |-> j, k |-> k, l |-> l]
  ELSE AddScan(m, i, j, k, l + 1)

\* Additive returning its indices in the order i, j, l, k
AdditiveSwappedReturn(m) ==
  LET r == AddScan(m, 0, 0, 0, 0) IN [r EXCEPT !.k = r.l, !.l = r.k]

Additive(m) == AddScan(m, 0, 0, 0, 0)

---------------------------------------------------------------------------
(* Inputs: symmetric zero-diagonal matrices of small integers              *)

Pairs(n) == {p \in (0 .. (n - 1)) \X (0 .. (n - 1)) : p[1] < p[2]}

SymMatrix(n, u) ==
  [i \in 0 .. (n - 1) |->
    [j \in 0 .. (n - 1) |->
      IF i = j THEN F(0) ELSE IF i < j THEN F(u[<<i, j>>]) ELSE F(u[<<j, i>>])]]

SymMatrices(n, V) == {SymMatrix(n, u) : u \in [Pairs(n) -> V]}

NoCall == [op |-> "none"]

\* no builder has been called
NJIdle ==
  /\ td = <<>>
  /\ nx = <<>>
  /\ nextNode = 0
  /\ frames = <<>>
  /\ tree = <<>>
  /\ wt = <<>>

UMIdle ==
  /\ cdf = 0
  /\ pl = <<>>
  /\ ul = <<>>
  /\ clusters = <<>>
  /\ cx = <<>>

APIdle ==
  /\ t = <<>>
  /\ edgeWts = <<>>
  /\ leaf = 0

\* CAST is not called
NoCast == [pc |-> "idle", sim |-> <<>>, v |-> <<0, 1>>, in |-> {}, c |-> {}, clusters |-> <<>>]

\* RandomAdditiveMatrix is not called
NoRandom == [n |-> 0, pl |-> <<>>, intn |-> <<>>]

\* no builder runs
NoReceiver == [shared |-> FALSE, hdr |-> <<>>]

WorkIdle ==
  /\ pc = "idle"
  /\ dm = <<>>
  /\ recv = NoReceiver
  /\ NJIdle
  /\ UMIdle
  /\ APIdle

---------------------------------------------------------------------------
(* Validation: a caller builds a matrix, then either overwrites one cell   *)
(* of it or makes one row a cell longer or shorter, or leaves it as it is, *)
(* and calls Validate or TriangleInequality.  The matrices built are every *)
(* matrix of at most two rows over CellVals and every larger symmetric     *)
(* zero-diagonal matrix of integers 0..VMaxVal.                            *)

VMaxN == 3
VMaxVal == 1

CellVals == {F(v) : v \in (0 - 1) .. VMaxVal} \cup {NaN}

AllMatrices(n, V) == [0 .. (n - 1) -> [0 .. (n - 1) -> V]]

NoMut == [kind |-> "none"]

InitValidation ==
  /\ \E n \in 0 .. VMaxN :
       \/ n <= 2 /\ d \in AllMatrices(n, CellVals)
       \/ n > 2 /\ d \in SymMatrices(n, 0 .. VMaxVal)
  /\ d0 = d
  /\ rnd = NoRandom
  /\ cast = NoCast
  /\ mut = NoMut
  /\ res = NoCall
  /\ WorkIdle

\* d[i][j] = v
SetCell(i, j, v) ==
  /\ res.op = "none"
  /\ pc = "idle"
  /\ mut = NoMut
  /\ v # d[i][j]
  /\ d' = [d EXCEPT ![i][j] = v]
  /\ mut' = [kind |-> "cell", i |-> i, j |-> j, v |-> v]
  /\ UNCHANGED <<d0, rnd, cast, res, work>>

\* d[i] = append(d[i], v)
GrowRow(i, v) ==
  /\ res.op = "none"
  /\ mut = NoMut
  /\ d' = [d EXCEPT ![i] = Push(d[i], v)]
  /\ mut' = [kind |-> "grow", i |-> i, j |-> Size(d[i]), v |-> v]
  /\ UNCHANGED <<d0, rnd, cast, res, work>>

\* d[i] = d[i][:len(d[i])-1]
ShrinkRow(i) ==
  /\ res.op = "none"
  /\ mut = NoMut
  /\ d' = [d EXCEPT ![i] = DropLast(d[i])]
  /\ mut' = [kind |-> "shrink", i |-> i, j |-> Size(d[i]) - 1, v |-> NaN]
  /\ UNCHANGED <<d0, rnd, cast, res, work>>

CallValidate ==
  /\ res.op = "none"
  /\ res' = [op |-> "Validate", err |-> Validate(d)]
  /\ UNCHANGED <<d, d0, rnd, cast, mut, work>>

\* called on square matrices: on a ragged one the code can index out of range
CallTriangleInequality ==
  /\ res.op = "none"
  /\ Square(d)
  /\ res' = [op |-> "TriangleInequality", ret |-> TriangleInequality(d)]
  /\ UNCHANGED <<d, d0, rnd, cast, mut, work>>

\* called on square matrices: on a ragged one di[:i] can be out of range
CallSymmetric ==
  /\ res.op = "none"
  /\ Square(d)
  /\ res' = [op |-> "Symmetric", ret |-> Symmetric(d)]
  /\ UNCHANGED <<d, d0, rnd, cast, mut, work>>

NextValidation ==
  \/ \E i \in Idx(d) : \E j \in Idx(d) : \E v \in CellVals : SetCell(i, j, v)
  \/ \E i \in Idx(d) : \E v \in CellVals : GrowRow(i, v)
  \/ \E i \in Idx(d) : ShrinkRow(i)
  \/ CallValidate
  \/ CallTriangleInequality
  \/ CallSymmetric

SpecValidation == InitValidation /\ [][NextValidation]_vars

---------------------------------------------------------------------------
(* Four-point test: a caller builds a symmetric zero-diagonal matrix of    *)
(* integers and calls Additive.  Matrices of fewer than AMaxN rows hold    *)
(* -1..AMaxVal, those of AMaxN rows hold 0..AMaxVal.                       *)

AMaxN == 4
AMaxVal == 1

InitAdditive ==
  /\ \E n \in 0 .. AMaxN :
       d \in SymMatrices(n, IF n < AMaxN THEN (0 - 1) .. AMaxVal ELSE 0 .. AMaxVal)
  /\ d0 = d
  /\ rnd = NoRandom
  /\ cast = NoCast
  /\ mut = NoMut
  /\ res = NoCall
  /\ WorkIdle

CallAdditive ==
  /\ res.op = "none"
  /\ res' = [op |-> "Additive", ret |-> Additive(d)]
  /\ UNCHANGED <<d, d0, rnd, cast, mut, work>>

NextAdditive == CallAdditive

SpecAdditive == InitAdditive /\ [][NextAdditive]_vars

---------------------------------------------------------------------------
(* NeighborJoin.  The three builders share their callers: a caller builds  *)
(* a symmetric zero-diagonal matrix of integers (BuilderInputs), may       *)
(* overwrite one cell of it (Poke), and calls the builder.  Each call of   *)
(* the recursive closure nj is two steps: NJReduce before its recursive    *)
(* call and NJJoin after it; NJBase is the innermost call.                 *)

\* Clone: a fresh matrix holding a copy of every row
Clone(mx) == [i \in Idx(mx) |-> [j \in Idx(mx[i]) |-> mx[i][j]]]

\* a receiver made by mx.Clone(): dc and every dc[i] are newly allocated, a
\* write through the receiver reaches nothing of mx
Cloned(mx) == [shared |-> FALSE, hdr |-> <<>>]

\* a receiver that is the caller's matrix mx: the same slice of row headers,
\* header k being row k of mx.  Later hdr[k] names the row whose storage
\* header k refers to
Receiver(mx) == [shared |-> TRUE, hdr |-> [k \in Idx(mx) |-> k]]

\* CallerSees for a receiver whose rows are the caller's rows whether or not
\* it was cloned
CallerSeesRowsShared(r, dv, h, mx) ==
  [k \in Idx(dv) |-> IF k < Size(mx) THEN mx[k] ELSE dv[k]]

\* the caller's matrix dv once the rows of the receiver hold mx, where h names
\* the row behind each header: the headers the receiver still uses are its
\* rows, and a header it has dropped keeps its length and shows what was
\* written to its row for as long as the receiver uses the row
CallerSees(r, dv, h, mx) ==
  IF ~r.shared THEN dv
  ELSE [k \in Idx(dv) |->
         IF k < Size(mx) THEN mx[k]
         ELSE [j \in Idx(dv[k]) |->
                LET live == {i \in Idx(mx) : h[i] = h[k]}
                IN  IF live # {} /\ j < Size(mx[CHOOSE i \in live : TRUE])
                    THEN mx[CHOOSE i \in live : TRUE][j]
                    ELSE dv[k][j]]]

\* the row headers after copy(dm[d2:], dm[d2+1:]) on a receiver of n rows: the
\* header past the new end stays as it was
DeleteHeader(h, n, d2) ==
  [k \in Idx(h) |-> IF k >= d2 /\ k < n - 1 THEN h[k + 1] ELSE h[k]]

\* graph.Half
Half(to, label) == [To |-> to, Label |-> label]

\* copy(s[x:], s[x+1:]) followed by s = s[:len(s)-1]
DeleteIndex(s, x) == [i \in 0 .. (Size(s) - 2) |-> IF i < x THEN s[i] ELSE s[i + 1]]

\* t := 0.; for _, d := range dk { t += d }, resumed at index j with sum acc
RECURSIVE RowSum(_, _, _)
RowSum(dk, j, acc) ==
  IF j >= Size(dk) THEN acc ELSE RowSum(dk, j + 1, FAdd(acc, dk[j]))

\* td after "compute or recompute TotalDistance"
TotalDistance(mx, tdv) ==
  [k \in Idx(tdv) |-> IF k < Size(mx) THEN RowSum(mx[k], 0, F(0)) ELSE tdv[k]]

\* the scan of the closure closest, resumed at (i, j) with the minimum found so far
RECURSIVE NJScan(_, _, _, _, _)
NJScan(mx, tdv, i, j, best) ==
  IF i >= Size(mx) THEN best
  ELSE IF j >= i THEN NJScan(mx, tdv, i + 1, 0, best)
  ELSE LET q == FSub(FSub(FMul(F(Size(mx) - 2), mx[i][j]), tdv[i]), tdv[j])
       IN  NJScan(mx, tdv, i, j + 1,
                  IF FLt(q, best.min) THEN [min |-> q, iMin |-> i, jMin |-> j] ELSE best)

\* the scan without the total distances: the pair of least distance
njClosestNoTotals(mx, tdv) ==
  NJScan(mx, [k \in Idx(tdv) |-> F(0)], 1, 0, [min |-> PosInf, iMin |-> 0 - 1, jMin |-> 0 - 1])

\* the closure closest of NeighborJoinD
njClosest(mx, tdv) ==
  NJScan(mx, tdv, 1, 0, [min |-> PosInf, iMin |-> 0 - 1, jMin |-> 0 - 1])

\* mn written as the distance from d1 alone: nothing of d2 enters
MeanDistanceFirstOnly(mx, d1, d2, j) == mx[d1][j]

\* mn of the loop "replace d1 with mean distance" at index j
MeanDistance(mx, d1, d2, j) ==
  FMul(Rat(1, 2), FSub(FAdd(mx[d1][j], mx[d2][j]), mx[d2][d1]))

\* dm after the loop "replace d1 with mean distance": row d1 and column d1
ReplaceMean(mx, d1, d2) ==
  [i \in Idx(mx) |->
    [j \in Idx(mx[i]) |->
      IF i = d1 THEN MeanDistance(mx, d1, d2, j)
      ELSE IF j = d1 THEN MeanDistance(mx, d1, d2, i)
      ELSE mx[i][j]]]

\* dm when the loop "replace d1 with mean distance" panics at index d1: the
\* iterations before it have written row d1 and column d1
ReplaceMeanBefore(mx, d1, d2) ==
  [i \in Idx(mx) |->
    [j \in Idx(mx[i]) |->
      IF i = d1 /\ j < d1 THEN MeanDistance(mx, d1, d2, j)
      ELSE IF j = d1 /\ i < d1 THEN MeanDistance(mx, d1, d2, i)
      ELSE mx[i][j]]]

\* dm after "d1 has been replaced, delete d2"
DeleteRowCol(mx, d2) ==
  LET rows == DeleteIndex(mx, d2) IN [i \in Idx(rows) |-> DeleteIndex(rows[i], d2)]

\* wt = append(wt, ll1, ll2), but only the first limb weight is stored
AppendOneLimb(w, ll1, ll2) == Push(w, ll1)

\* wt = append(wt, ll1, ll2)
AppendLimbs(w, ll1, ll2) == Push(Push(w, ll1), ll2)

\* the appends of "join limbs to tree" with both limbs stored at node n1
JoinLimbsSameNode(tr, f, wx1) ==
  LET a == [tr EXCEPT ![f.m] = Push(Push(tr[f.m], Half(f.n1, wx1)), Half(f.n2, wx1 + 1))]
  IN  [a EXCEPT ![f.n1] = Push(Push(a[f.n1], Half(f.m, wx1)), Half(f.m, wx1 + 1))]

\* "join limbs to tree": the appends to tree that follow the recursive call,
\* for the locals f of the call and the first of its two labels wx1
JoinLimbs(tr, f, wx1) ==
  LET a == [tr EXCEPT ![f.m] = Push(Push(tr[f.m], Half(f.n1, wx1)), Half(f.n2, wx1 + 1))]
      b == [a EXCEPT ![f.n1] = Push(a[f.n1], Half(f.m, wx1))]
  IN  [b EXCEPT ![f.n2] = Push(b[f.n2], Half(f.m, wx1 + 1))]

\* a call that panicked
Panicked(op, why) == [op |-> op, panic |-> why]

BMaxN == 4
BMaxVal == 1

\* the matrices handed to a builder: symmetric, zero diagonal, integer cells;
\* 0..BMaxVal in matrices of fewer than BMaxN rows, 1 or 2 in those of BMaxN rows
BuilderInputs ==
  UNION {SymMatrices(n, IF n < BMaxN THEN 0 .. BMaxVal ELSE {1, 2}) : n \in 0 .. BMaxN}

\* the values a caller overwrites a cell with before calling a builder
PokeVals == {F(0 - 1), F(1)}

InitBuilder ==
  /\ d \in BuilderInputs
  /\ d0 = d
  /\ rnd = NoRandom
  /\ cast = NoCast
  /\ mut = NoMut
  /\ res = NoCall
  /\ WorkIdle

\* the caller overwrites one cell of a matrix of fewer than BMaxN rows whose
\* cells are all 0 or 1
Poke ==
  /\ Size(d) < BMaxN
  /\ \A i \in Idx(d) : \A j \in Idx(d) : d[i][j] \in {F(0), F(1)}
  /\ \E i \in Idx(d) : \E j \in Idx(d) : \E v \in PokeVals : SetCell(i, j, v)

\* NeighborJoinD on the receiver mx, whose storage is shared with the caller's
\* matrix as r tells, up to the first call of nj
EnterNeighborJoinD(mx, r) ==
  /\ UNCHANGED <<umVars, apVars>>
  /\ res.op = "none"
  /\ pc = "idle"
  /\ pc' = "nj"
  /\ dm' = mx
  /\ recv' = r
  /\ td' = [i \in Idx(mx) |-> F(0)]
  /\ nx' = [i \in Idx(mx) |-> i]
  /\ nextNode' = Size(mx)
  /\ UNCHANGED <<d, d0, rnd, cast, mut, res, frames, tree, wt>>

\* NeighborJoin: dm.Clone().NeighborJoinD()
CallNeighborJoin == EnterNeighborJoinD(Clone(d), Cloned(d))

\* NeighborJoinD called on the caller's matrix
CallNeighborJoinD == EnterNeighborJoinD(d, Receiver(d))

\* the value NeighborJoinD returns once the outermost call of nj has returned
NJReturn(tr, w) == [op |-> "NeighborJoin", u |-> tr, wt |-> w]

\* nj(m) with len(dm) # 2, up to its recursive call
NJReduce ==
  /\ UNCHANGED <<umVars, apVars>>
  /\ pc = "nj"
  /\ Size(dm) # 2
  /\ \E tdv \in {TotalDistance(dm, td)} : \E c \in {njClosest(dm, tdv)} :
     LET d1 == c.jMin
         d2 == c.iMin
     IN  IF d1 < 0
         THEN \* td[d2] with d2 = -1
              /\ pc' = "panic"
              /\ res' = Panicked("NeighborJoin", "index out of range")
              /\ UNCHANGED <<d, dm, recv, njVars>>
         ELSE IF ~FEq(MeanDistance(dm, d1, d2, d1), F(0))
         THEN /\ pc' = "panic"
              /\ res' = Panicked("NeighborJoin", "uh uh, prolly skip this one...")
              /\ td' = tdv
              /\ dm' = ReplaceMeanBefore(dm, d1, d2)
              /\ d' = CallerSees(recv, d, recv.hdr, dm')
              /\ UNCHANGED <<recv, nx, nextNode, frames, tree, wt>>
         ELSE LET delta == FDiv(FSub(tdv[d2], tdv[d1]), F(Size(dm) - 2))
                  d21 == dm[d2][d1]
              IN  /\ frames' = Append(frames,
                        [m |-> nextNode, n1 |-> nx[d1], n2 |-> nx[d2],
                         ll1 |-> FMul(Rat(1, 2), FSub(d21, delta)),
                         ll2 |-> FMul(Rat(1, 2), FAdd(d21, delta))])
                  /\ td' = tdv
                  /\ dm' = DeleteRowCol(ReplaceMean(dm, d1, d2), d2)
                  /\ recv' = [recv EXCEPT !.hdr = DeleteHeader(recv.hdr, Size(dm), d2)]
                  /\ d' = CallerSees(recv, CallerSees(recv, d, recv.hdr, ReplaceMean(dm, d1, d2)),
                                     recv'.hdr, dm')
                  /\ nx' = DeleteIndex([nx EXCEPT ![d1] = nextNode], d2)
                  /\ nextNode' = nextNode + 1
                  /\ UNCHANGED <<pc, res, tree, wt>>
  /\ UNCHANGED <<d0, rnd, cast, mut>>

\* nj(m) with len(dm) == 2; with no caller waiting NeighborJoinD returns
NJBase ==
  /\ UNCHANGED <<umVars, apVars>>
  /\ pc = "nj"
  /\ Size(dm) = 2
  /\ LET w == [i \in {0} |-> dm[0][1]]
         e == [i \in 0 .. (nextNode - 1) |-> <<>>]
         a == [e EXCEPT ![nx[0]] = [i \in {0} |-> Half(nx[1], 0)]]
         tr == [a EXCEPT ![nx[1]] = [i \in {0} |-> Half(nx[0], 0)]]
     IN  /\ wt' = w
         /\ tree' = tr
         /\ IF frames = <<>>
            THEN pc' = "done" /\ res' = NJReturn(tr, w)
            ELSE pc' = "join" /\ res' = res
  /\ UNCHANGED <<d, d0, rnd, cast, mut, dm, recv, td, nx, nextNode, frames>>

\* the rest of a call of nj after its recursive call returned; when it was the
\* outermost call NeighborJoinD returns
NJJoin ==
  /\ UNCHANGED <<umVars, apVars>>
  /\ pc = "join"
  /\ LET f == frames[Len(frames)]
         w == AppendLimbs(wt, f.ll1, f.ll2)
         tr == JoinLimbs(tree, f, Size(wt))
     IN  /\ wt' = w
         /\ tree' = tr
         /\ frames' = SubSeq(frames, 1, Len(frames) - 1)
         /\ IF Len(frames) = 1
            THEN pc' = "done" /\ res' = NJReturn(tr, w)
            ELSE pc' = "join" /\ res' = res
  /\ UNCHANGED <<d, d0, rnd, cast, mut, dm, recv, td, nx, nextNode>>

NextNeighborJoin ==
  \/ Poke
  \/ CallNeighborJoin
  \/ NJReduce
  \/ NJBase
  \/ NJJoin

SpecNeighborJoin == InitBuilder /\ [][NextNeighborJoin]_vars

---------------------------------------------------------------------------
(* Ultrametric.  One step per iteration of the merge loop.  The workspace  *)
(* cl that UltrametricD allocates for DMIN is never read and is left out.  *)

DAVG == 0
DMIN == 1

\* graph.PathEnd
PathEnd(from, len) == [From |-> from, Len |-> len]

\* the scan of closest, resumed at positions a (outer loop) and c (inner loop)
\* of the cluster list with the minimum found so far
RECURSIVE ClosestScan(_, _, _, _, _)
ClosestScan(mx, cls, a, c, best) ==
  IF a >= Size(cls) THEN best
  ELSE IF c >= Size(cls) THEN ClosestScan(mx, cls, a + 1, 0, best)
  ELSE LET i == cls[a]
           j == cls[c]
       IN  ClosestScan(mx, cls, a, c + 1,
             IF i < j /\ FLt(mx[i][j], best.min)
             THEN [min |-> mx[i][j], iMin |-> i, jMin |-> j, cj |-> c]
             ELSE best)

\* the scan written "d <= min": of equal minima the last found is kept
RECURSIVE ClosestScanLastFound(_, _, _, _, _)
ClosestScanLastFound(mx, cls, a, c, best) ==
  IF a >= Size(cls) THEN best
  ELSE IF c >= Size(cls) THEN ClosestScanLastFound(mx, cls, a + 1, 0, best)
  ELSE LET i == cls[a]
           j == cls[c]
       IN  ClosestScanLastFound(mx, cls, a, c + 1,
             IF i < j /\ ~FLt(best.min, mx[i][j]) /\ ~IsNaN(mx[i][j])
             THEN [min |-> mx[i][j], iMin |-> i, jMin |-> j, cj |-> c]
             ELSE best)

closestLastFound(mx, cls) ==
  ClosestScanLastFound(mx, cls, 0, 0, [min |-> PosInf, iMin |-> 0 - 1, jMin |-> 0 - 1, cj |-> 0])

\* DistanceMatrix.closest
closest(mx, cls) ==
  ClosestScan(mx, cls, 0, 0, [min |-> PosInf, iMin |-> 0 - 1, jMin |-> 0 - 1, cj |-> 0])

\* the average distance multiplied by invMag once more
AvgDistanceShrunk(dij, di2j, m1, m2) ==
  FMul(FMul(FAdd(FMul(dij, F(m1)), FMul(di2j, F(m2))), FDiv(F(1), F(m1 + m2))),
       FDiv(F(1), F(m1 + m2)))

\* d := (dij*mag1 + di2[j]*mag2) * invMag
AvgDistance(dij, di2j, m1, m2) ==
  FMul(FAdd(FMul(dij, F(m1)), FMul(di2j, F(m2))), FDiv(F(1), F(m1 + m2)))

\* case DAVG: the loop over clusters, resumed at position p
RECURSIVE FoldDAVG(_, _, _, _, _, _, _)
FoldDAVG(mx, cls, p, d1, d2, m1, m2) ==
  IF p >= Size(cls) THEN mx
  ELSE LET j == cls[p]
           dd == AvgDistance(mx[d1][j], mx[d2][j], m1, m2)
       IN  IF j # d1
           THEN FoldDAVG([[mx EXCEPT ![d1][j] = dd] EXCEPT ![j][d1] = dd],
                         cls, p + 1, d1, d2, m1, m2)
           ELSE FoldDAVG(mx, cls, p + 1, d1, d2, m1, m2)

\* case DMIN: the loop over clusters, resumed at position p
RECURSIVE FoldDMIN(_, _, _, _, _)
FoldDMIN(mx, cls, p, d1, d2) ==
  IF p >= Size(cls) THEN mx
  ELSE LET j == cls[p]
           dj1 == mx[d1][j]
           dj2 == mx[d2][j]
       IN  IF FLt(dj2, dj1)
           THEN FoldDMIN([mx EXCEPT ![d1][j] = dj2], cls, p + 1, d1, d2)
           ELSE FoldDMIN([mx EXCEPT ![j][d1] = dj1], cls, p + 1, d1, d2)

\* the deletion written "clusters = clusters[:last]" alone: the last cluster
\* is dropped whatever cl2 is
DeleteClusterLastOnly(cls, cl2) == DropLast(cls)

\* "d1 has been replaced, delete d2": clusters after the deletion of position cl2
DeleteCluster(cls, cl2) == DropLast([cls EXCEPT ![cl2] = cls[Size(cls) - 1]])

\* the weight written "age" alone: the age of the child is not subtracted
EdgeWeightFromLeaves(age, child) == age

\* ul[c].Weight = age - ul[c].Age, for the label child = ul[c]
EdgeWeight(age, child) == FSub(age, child.Age)

\* UltrametricD(c) on the receiver mx, whose storage is shared with the
\* caller's matrix as r tells, up to the merge loop
EnterUltrametricD(mx, r, c) ==
  /\ res.op = "none"
  /\ pc = "idle"
  /\ pc' = "um"
  /\ dm' = mx
  /\ recv' = r
  /\ cdf' = c
  /\ pl' = [i \in Idx(mx) |-> PathEnd(0 - 1, 1)]
  /\ ul' = [i \in Idx(mx) |-> [Weight |-> NaN, Age |-> F(0)]]
  /\ clusters' = [i \in Idx(mx) |-> i]
  /\ cx' = [i \in Idx(mx) |-> i]
  /\ UNCHANGED <<d, d0, rnd, cast, mut, res, njVars, apVars>>

\* Ultrametric: dm.Clone().UltrametricD(c)
CallUltrametric(c) == EnterUltrametricD(Clone(d), Cloned(d), c)

\* UltrametricD(c) called on the caller's matrix
CallUltrametricD(c) == EnterUltrametricD(d, Receiver(d), c)

\* one iteration of the merge loop; the iteration that starts with two
\* clusters returns
UMMerge ==
  /\ pc = "um"
  /\ \E c \in {closest(dm, clusters)} :
     IF c.iMin < 0
     THEN \* cx[d1] with d1 = -1
          /\ pc' = "panic"
          /\ res' = Panicked("Ultrametric", "index out of range")
          /\ UNCHANGED <<d, dm, umVars>>
     ELSE LET d1 == c.iMin
              d2 == c.jMin
              c1 == cx[d1]
              c2 == cx[d2]
              m1 == pl[c1].Len
              m2 == pl[c2].Len
              parent == Size(pl)
              age == FDiv(dm[d2][d1], F(2))
              pl1 == Push(pl, PathEnd(0 - 1, m1 + m2))
              pl2 == [[pl1 EXCEPT ![c1].From = parent] EXCEPT ![c2].From = parent]
              ul1 == Push(ul, [Weight |-> NaN, Age |-> age])
              ul2 == [ul1 EXCEPT ![c1].Weight = EdgeWeight(age, ul1[c1])]
              ul3 == [ul2 EXCEPT ![c2].Weight = EdgeWeight(age, ul2[c2])]
          IN  /\ pl' = pl2
              /\ ul' = ul3
              /\ cdf' = cdf
              /\ IF Size(clusters) = 2
                 THEN /\ pc' = "done"
                      /\ res' = [op |-> "Ultrametric", pl |-> pl2, ul |-> ul3]
                      /\ UNCHANGED <<d, dm, clusters, cx>>
                 ELSE IF cdf \notin {DAVG, DMIN}
                 THEN /\ pc' = "panic"
                      /\ res' = Panicked("Ultrametric", "Ultrametric: invalid distance function")
                      /\ cx' = [cx EXCEPT ![d1] = parent]
                      /\ UNCHANGED <<d, dm, clusters>>
                 ELSE /\ pc' = "um"
                      /\ res' = res
                      /\ cx' = [cx EXCEPT ![d1] = parent]
                      /\ dm' = IF cdf = DAVG
                               THEN FoldDAVG(dm, clusters, 0, d1, d2, m1, m2)
                               ELSE FoldDMIN(dm, clusters, 0, d1, d2)
                      /\ d' = CallerSees(recv, d, recv.hdr, dm')
                      /\ clusters' = DeleteCluster(clusters, c.cj)
  /\ UNCHANGED <<d0, rnd, cast, mut, recv, njVars, apVars>>

NextUltrametric ==
  \/ Poke
  \/ \E c \in {DAVG, DMIN, DMIN + 1} : CallUltrametric(c)
  \/ UMMerge

SpecUltrametric == InitBuilder /\ [][NextUltrametric]_vars

\* the matrix of ExampleDistanceMatrix_Ultrametric
ExampleUltrametric ==
  LET rows == << <<0, 20, 17, 11>>, <<20, 0, 20, 13>>, <<17, 20, 0, 10>>, <<11, 13, 10, 0>> >>
  IN  [i \in 0 .. 3 |-> [j \in 0 .. 3 |-> F(rows[i + 1][j + 1])]]

\* the caller constructs the matrix of the example or one of BuilderInputs
InitUltrametricExample ==
  /\ d \in BuilderInputs \cup {ExampleUltrametric}
  /\ d0 = d
  /\ rnd = NoRandom
  /\ cast = NoCast
  /\ mut = NoMut
  /\ res = NoCall
  /\ WorkIdle

SpecUltrametricExample == InitUltrametricExample /\ [][NextUltrametric]_vars

---------------------------------------------------------------------------
(* AdditiveTree.  One step per call of the recursive closure ap, taken     *)
(* when the call inserts its leaf; the search f runs inside that step.     *)

\* the loop of limbWeightSubMatrix over dj[:k-1], resumed at index i with the
\* minimum found so far
RECURSIVE LimbScan(_, _, _, _)
LimbScan(mx, j, i, best) ==
  IF i >= j - 2 THEN best
  ELSE LET w == FSub(FAdd(mx[j][i], mx[j][j - 1]), mx[j - 1][i])
       IN  LimbScan(mx, j, i + 1, IF FLt(w, best.wt) THEN [wt |-> w, i |-> i] ELSE best)

\* limbWeightSubMatrix returning wtMin2 instead of wtMin2 / 2
limbWeightNotHalved(mx, j) ==
  LET k == j - 1
      b == LimbScan(mx, j, 0,
             [wt |-> FSub(FAdd(mx[j][k - 1], mx[j][k]), mx[k][k - 1]), i |-> k - 1])
  IN  [wt |-> b.wt, i |-> b.i, k |-> k]

\* DistanceMatrix.limbWeightSubMatrix
limbWeightSubMatrix(mx, j) ==
  LET k == j - 1
      b == LimbScan(mx, j, 0,
             [wt |-> FSub(FAdd(mx[j][k - 1], mx[j][k]), mx[k][k - 1]), i |-> k - 1])
  IN  [wt |-> FDiv(b.wt, F(2)), i |-> b.i, k |-> k]

\* the least element of a set of integers
MinOf(S) == CHOOSE x \in S : \A y \in S : x <= y

\* SplitEdge without the update of the half-edge that leads back from to.To
SplitEdgeOneWay(r, n, tx) ==
  LET to == r.t[n][tx]
      v == Size(r.t)
      y == Size(r.w)
      t1 == [r.t EXCEPT ![n][tx].To = v]
      nv == [h \in 0 .. 1 |-> IF h = 0 THEN Half(n, to.Label) ELSE Half(to.To, y)]
  IN  [r EXCEPT !.t = Push(t1, nv),
                !.w = Push([r.w EXCEPT ![to.Label] = FSub(r.w[to.Label], r.x)], r.x),
                !.x = F(0),
                !.p = v]

\* SplitEdge with the two half-edges of the new node appended in the other
\* order
SplitEdgeFarFirst(r, n, tx) ==
  LET to == r.t[n][tx]
      v == Size(r.t)
      y == Size(r.w)
      t1 == [r.t EXCEPT ![n][tx].To = v]
      fxs == {fx \in Idx(t1[to.To]) : t1[to.To][fx].To = n}
      t2 == IF fxs = {} THEN t1 ELSE [t1 EXCEPT ![to.To][MinOf(fxs)] = Half(v, y)]
      nv == [h \in 0 .. 1 |-> IF h = 0 THEN Half(to.To, y) ELSE Half(n, to.Label)]
  IN  [r EXCEPT !.t = Push(t2, nv),
                !.w = Push([r.w EXCEPT ![to.Label] = FSub(r.w[to.Label], r.x)], r.x),
                !.x = F(0),
                !.p = v]

\* case x < edgeWts[to.Label] of f: a new node v at distance x from to.To, for
\* the search state r = [t, w, x, vis, p] (w stands for edgeWts)
SplitEdge(r, n, tx) ==
  LET to == r.t[n][tx]
      v == Size(r.t)
      y == Size(r.w)
      t1 == [r.t EXCEPT ![n][tx].To = v]
      fxs == {fx \in Idx(t1[to.To]) : t1[to.To][fx].To = n}
      t2 == IF fxs = {} THEN t1 ELSE [t1 EXCEPT ![to.To][MinOf(fxs)] = Half(v, y)]
      nv == [h \in 0 .. 1 |-> IF h = 0 THEN Half(n, to.Label) ELSE Half(to.To, y)]
  IN  [r EXCEPT !.t = Push(t2, nv),
                !.w = Push([r.w EXCEPT ![to.Label] = FSub(r.w[to.Label], r.x)], r.x),
                !.x = F(0),
                !.p = v]

RECURSIVE FSearch(_, _, _)
RECURSIVE FRange(_, _, _, _)
RECURSIVE FSwitch(_, _, _, _)

\* f(n), searching for leaf i; the result carries p, the value returned
FSearch(st, n, i) ==
  IF n = i THEN [st EXCEPT !.p = n]
  ELSE FRange([st EXCEPT !.vis = st.vis \cup {n}], n, i, 0)

\* the loop of f(n) over t[n], resumed at position tx
FRange(st, n, i, tx) ==
  IF tx >= Size(st.t[n]) THEN [st EXCEPT !.p = 0 - 1]
  ELSE IF st.t[n][tx].To \in st.vis THEN FRange(st, n, i, tx + 1)
  ELSE FSwitch(FSearch(st, st.t[n][tx].To, i), n, i, tx)

\* the switch of f(n) after p := f(to.To) left the search in state r
FSwitch(r, n, i, tx) ==
  IF r.p < 0 THEN FRange(r, n, i, tx + 1)
  ELSE IF FEq(r.x, F(0)) THEN r
  ELSE IF FLt(r.x, r.w[r.t[n][tx].Label]) THEN SplitEdge(r, n, tx)
  ELSE [r EXCEPT !.x = FSub(r.x, r.w[r.t[n][tx].Label]), !.p = n]

\* AdditiveTree up to the innermost call ap(1): the calls of ap on the way
\* down only read d (limbWeightSubMatrix, x), which the model does when each
\* call resumes
CallAdditiveTree ==
  /\ res.op = "none"
  /\ pc = "idle"
  /\ IF Size(d) < 2
     THEN \* make with a capacity below the length, or d[-1]
          /\ pc' = "panic"
          /\ res' = Panicked("AdditiveTree", "makeslice or index out of range")
          /\ UNCHANGED apVars
     ELSE /\ pc' = "ap"
          /\ res' = res
          /\ t' = [i \in Idx(d) |-> <<>>]
          /\ edgeWts' = <<>>
          /\ leaf' = 1
  /\ UNCHANGED <<d, d0, rnd, cast, mut, dm, recv, njVars, umVars>>

ATReturn(tr, w) == [op |-> "AdditiveTree", u |-> tr, edgeWts |-> w]

\* what follows the call ap(n) that has just inserted its leaf: the caller
\* ap(n + 1) resumes, or AdditiveTree returns
APNext(tr, w) ==
  /\ t' = tr
  /\ edgeWts' = w
  /\ leaf' = leaf + 1
  /\ IF leaf = Size(d) - 1
     THEN pc' = "done" /\ res' = ATReturn(tr, w)
     ELSE pc' = "ap" /\ res' = res

\* ap(1)
APBase ==
  /\ pc = "ap"
  /\ leaf = 1
  /\ LET a == [t EXCEPT ![0] = [h \in {0} |-> Half(1, 0)]]
     IN  APNext([a EXCEPT ![1] = [h \in {0} |-> Half(0, 0)]], [h \in {0} |-> d[0][1]])
  /\ UNCHANGED <<d, d0, rnd, cast, mut, dm, recv, njVars, umVars>>

\* ap(n), n > 1, after its recursive call returned: the search f(k) and the
\* new limb
APInsert ==
  /\ pc = "ap"
  /\ leaf > 1
  /\ \E lw \in {limbWeightSubMatrix(d, leaf)} :
     \E r \in {FSearch([t |-> t, w |-> edgeWts, x |-> FSub(d[lw.i][leaf], lw.wt),
                        vis |-> {}, p |-> 0 - 1], lw.k, lw.i)} :
       IF r.p < 0
       THEN \* t[v] with v = -1
            /\ pc' = "panic"
            /\ res' = Panicked("AdditiveTree", "index out of range")
            /\ UNCHANGED apVars
       ELSE LET y == Size(r.w)
                a == [r.t EXCEPT ![leaf] = [h \in {0} |-> Half(r.p, y)]]
            IN  APNext([a EXCEPT ![r.p] = Push(a[r.p], Half(leaf, y))], Push(r.w, lw.wt))
  /\ UNCHANGED <<d, d0, rnd, cast, mut, dm, recv, njVars, umVars>>

NextAdditiveTree ==
  \/ Poke
  \/ CallAdditiveTree
  \/ APBase
  \/ APInsert

SpecAdditiveTree == InitBuilder /\ [][NextAdditiveTree]_vars

\* the matrix of ExampleDistanceMatrix_AdditiveTree
ExampleAdditive ==
  LET rows == << <<0, 13, 21, 22>>, <<13, 0, 12, 13>>, <<21, 12, 0, 13>>, <<22, 13, 13, 0>> >>
  IN  [i \in 0 .. 3 |-> [j \in 0 .. 3 |-> F(rows[i + 1][j + 1])]]

\* the caller constructs the matrix of the example or one of BuilderInputs
InitExample ==
  /\ d \in BuilderInputs \cup {ExampleAdditive}
  /\ d0 = d
  /\ rnd = NoRandom
  /\ cast = NoCast
  /\ mut = NoMut
  /\ res = NoCall
  /\ WorkIdle

SpecAdditiveTreeExample == InitExample /\ [][NextAdditiveTree]_vars

---------------------------------------------------------------------------
(* The builders together, each called once on a matrix as constructed,     *)
(* with Ultrametric and NeighborJoin in both variants: on a clone and, as  *)
(* UltrametricD and NeighborJoinD, on the caller's matrix itself.          *)

NextBuilders ==
  \/ \E c \in {DAVG, DMIN, DMIN + 1} : CallUltrametric(c)
  \/ \E c \in {DAVG, DMIN, DMIN + 1} : CallUltrametricD(c)
  \/ UMMerge
  \/ CallNeighborJoin
  \/ CallNeighborJoinD
  \/ NJReduce
  \/ NJBase
  \/ NJJoin
  \/ CallAdditiveTree
  \/ APBase
  \/ APInsert

SpecBuilders == InitBuilder /\ [][NextBuilders]_vars

---------------------------------------------------------------------------
(* RandomAdditiveMatrix.  The random draws are made first and kept in rnd: *)
(* the parent list that randomUTree(n) returns and the integers that       *)
(* rand.Intn(90) returns; the call computes the matrix from them, and the  *)
(* caller then asks Additive about it.                                     *)

RMaxN == 4
RMaxW == 1

\* the number of nodes of the parent list p whose parent is v
ChildCount(p, v) == Cardinality({c \in Idx(p) : p[c] = v})

\* the parent lists randomUTree(n) may return: leaves 0..n-1 followed by up
\* to n-2 inner nodes, every node below a node of larger index, the root
\* being len(pl), which is not in the list, and every inner node having two
\* or more children
randomUTree(n) ==
  UNION {{p \in [0 .. (n + k - 1) -> n .. (n + k)] :
            \A v \in n .. (n + k - 1) : p[v] > v /\ ChildCount(p, v) >= 2}
         : k \in 0 .. (n - 2)}

\* the results of rand.Intn(90) the model draws for node v of a tree of n
\* leaves: for a leaf 0..RMaxW, or 0 and 1 in a tree of RMaxN leaves; for an
\* inner node 0 and 1, or 0 alone in a tree of RMaxN leaves
Intn(n, v) ==
  IF v < n THEN (IF n < RMaxN THEN 0 .. RMaxW ELSE {0, 1})
  ELSE (IF n < RMaxN THEN {0, 1} ELSE {0})

\* the draws for every node of the parent list p of a tree of n leaves
Draws(n, p) ==
  {[v \in Idx(p) |-> IF v < n THEN a[v] ELSE b[v]] :
     a \in [0 .. (n - 1) -> Intn(n, 0)], b \in [n .. (Size(p) - 1) -> Intn(n, n)]}

\* da[v].leng once f has visited v: the nodes on the path from v to the root
RECURSIVE Leng(_, _)
Leng(p, v) == IF v = Size(p) THEN 1 ELSE Leng(p, p[v]) + 1

\* da[v].wt = 10 + float64(rand.Intn(90))
EdgeWt(r, v) == FAdd(F(10), F(r.intn[v]))

\* lldist: "accumulate l1 distance to same tree height as l2"
RECURSIVE LevelUp(_, _, _, _)
LevelUp(r, l1, len2, acc) ==
  IF Leng(r.pl, l1) > len2
  THEN LevelUp(r, r.pl[l1], len2, FAdd(acc, EdgeWt(r, l1)))
  ELSE [l1 |-> l1, d |-> acc]

\* lldist: "accumulate d1, d2 until l1, l2 are the same node"
RECURSIVE MeetUp(_, _, _, _)
MeetUp(r, l1, l2, acc) ==
  IF l1 # l2
  THEN MeetUp(r, r.pl[l1], r.pl[l2], FAdd(acc, FAdd(EdgeWt(r, l1), EdgeWt(r, l2))))
  ELSE acc

\* the closure lldist of RandomAdditiveMatrix
lldist(r, a, b) ==
  LET l1 == IF Leng(r.pl, a) < Leng(r.pl, b) THEN b ELSE a
      l2 == IF Leng(r.pl, a) < Leng(r.pl, b) THEN a ELSE b
      up == LevelUp(r, l1, Leng(r.pl, l2), F(0))
  IN  MeetUp(r, up.l1, l2, up.d)

\* RandomAdditiveMatrix without the assignment d[j][i] = di[j]
RandomAdditiveMatrixLowerOnly(r) ==
  [i \in 0 .. (r.n - 1) |->
    [j \in 0 .. (r.n - 1) |-> IF j < i THEN lldist(r, i, j) ELSE F(0)]]

\* RandomAdditiveMatrix(n) for the draws r: "build distance matrix"
RandomAdditiveMatrix(r) ==
  [i \in 0 .. (r.n - 1) |->
    [j \in 0 .. (r.n - 1) |->
      IF j < i THEN lldist(r, i, j) ELSE IF i < j THEN lldist(r, j, i) ELSE F(0)]]

\* the draws RandomAdditiveMatrix(n) will make, n in 2..RMaxN; the caller
\* has no matrix yet
InitRandom ==
  /\ \E n \in 2 .. RMaxN : \E p \in randomUTree(n) : \E x \in Draws(n, p) :
       rnd = [n |-> n, pl |-> p, intn |-> x]
  /\ cast = NoCast
  /\ d = <<>>
  /\ d0 = <<>>
  /\ mut = NoMut
  /\ res = NoCall
  /\ WorkIdle

\* d := RandomAdditiveMatrix(n)
CallRandomAdditiveMatrix ==
  /\ res.op = "none"
  /\ d = <<>>
  /\ d' = RandomAdditiveMatrix(rnd)
  /\ d0' = d'
  /\ UNCHANGED <<mut, rnd, cast, res, work>>

NextRandom ==
  \/ CallRandomAdditiveMatrix
  \/ CallAdditive

SpecRandom == InitRandom /\ [][NextRandom]_vars

---------------------------------------------------------------------------
(* SimilarityMatrix.CAST.  A caller builds a symmetric similarity matrix   *)
(* and picks a threshold; CAST runs one step per iteration of its outer    *)
(* loop head (CASTPick) and of its inner loop (CASTGrow).  A Go map is a   *)
(* set, and a range over a map visits it in any order: where the order     *)
(* decides the outcome the model takes every outcome.                      *)

CMaxN == 3
CMaxVal == 1
CMaxClusters == 4

\* the similarity matrices a caller builds: symmetric, cells 0..CMaxVal in
\* matrices of fewer than CMaxN rows; in those of CMaxN rows every node is
\* fully similar to itself (diagonal 1, as the 20 of the example is the
\* greatest cell) and the other cells are 0 or 1
SimInputs ==
  UNION {{[i \in 0 .. (n - 1) |-> [j \in 0 .. (n - 1) |->
             IF i = j /\ n >= CMaxN THEN F(1)
             ELSE IF i <= j THEN F(u[<<i, j>>]) ELSE F(u[<<j, i>>])]] :
            u \in [{q \in (0 .. (n - 1)) \X (0 .. (n - 1)) :
                      IF n < CMaxN THEN q[1] <= q[2] ELSE q[1] < q[2]} ->
                     IF n < CMaxN THEN 0 .. CMaxVal ELSE {0, 1}]}
         : n \in 0 .. CMaxN}

\* the thresholds a caller picks
Thresholds == {Rat(0 - 1, 2), Rat(1, 2)}

\* g[i][j] = i != j && sij > v
Graph(sim, v, i, j) == i # j /\ FGt(sim[i][j], v)

\* deg of node i: the nodes j of in with g[i][j]
Degree(k, i) == Cardinality({j \in k.in : Graph(k.sim, k.v, i, j)})

\* the sum of cSim over the nodes of S, in any order
RECURSIVE SimSum(_, _, _)
SimSum(sim, i, S) ==
  IF S = {} THEN F(0)
  ELSE LET j == CHOOSE j \in S : TRUE
       IN  FAdd(sim[i][j], SimSum(sim, i, S \ {j}))

\* SimilarityMatrix.cSim
cSim(sim, i, c) == FDiv(SimSum(sim, i, c), F(Cardinality(c)))

\* the values vCloseI may have after the scan of the inner loop: -1, or a
\* v-close node outside c of the largest cSim above -2
VClose(k) ==
  LET cand == {i \in k.in \ k.c :
                 /\ FGt(cSim(k.sim, i, k.c), k.v)
                 /\ FGt(cSim(k.sim, i, k.c), F(0 - 2))}
  IN  IF cand = {} THEN {0 - 1}
      ELSE {i \in cand : \A j \in cand : ~FGt(cSim(k.sim, j, k.c), cSim(k.sim, i, k.c))}

\* the values vDistI may have after the scan of the inner loop: -1, or a
\* v-distant node of c of the smallest cSim below 2
VDist(k) ==
  LET cand == {i \in k.in \cap k.c :
                 /\ ~FGt(cSim(k.sim, i, k.c), k.v)
                 /\ FLt(cSim(k.sim, i, k.c), F(2))}
  IN  IF cand = {} THEN {0 - 1}
      ELSE {i \in cand : \A j \in cand : ~FLt(cSim(k.sim, j, k.c), cSim(k.sim, i, k.c))}

\* the slices cs that "for n := range c" may fill
Orders(S) ==
  {f \in [0 .. (Cardinality(S) - 1) -> S] : \A x \in S : \E y \in DOMAIN f : f[y] = x}

InitCAST ==
  /\ \E sim \in SimInputs : \E v \in Thresholds :
       cast = [NoCast EXCEPT !.sim = sim, !.v = v]
  /\ d = <<>>
  /\ d0 = <<>>
  /\ mut = NoMut
  /\ rnd = NoRandom
  /\ res = NoCall
  /\ WorkIdle

\* sim.CAST(v) up to the outer loop: the graph and the set in
CallCAST ==
  /\ res.op = "none"
  /\ cast.pc = "idle"
  /\ cast' = [cast EXCEPT !.pc = "pick", !.in = Idx(cast.sim)]
  /\ UNCHANGED <<d, d0, mut, rnd, res, work>>

\* the head of the outer loop: CAST returns when in is empty, else it picks
\* a node of maximum degree as the first node of a new cluster
CASTPick ==
  /\ cast.pc = "pick"
  /\ IF cast.in = {}
     THEN /\ cast' = [cast EXCEPT !.pc = "done"]
          /\ res' = [op |-> "CAST", clusters |-> cast.clusters]
     ELSE /\ \E maxI \in {i \in cast.in : \A j \in cast.in : Degree(cast, j) <= Degree(cast, i)} :
               cast' = [cast EXCEPT !.pc = "grow", !.c = {maxI}]
          /\ res' = res
  /\ UNCHANGED <<d, d0, mut, rnd, work>>

\* one iteration of the inner loop: it moves a node into c, a node out of c,
\* or both; when it finds neither it breaks, and the cluster is appended and
\* its nodes leave in.  The model follows a run up to CMaxClusters clusters
CASTGrow ==
  /\ cast.pc = "grow"
  /\ \E vCloseI \in VClose(cast) : \E vDistI \in VDist(cast) :
       IF vCloseI < 0 /\ vDistI < 0
       THEN /\ Size(cast.clusters) < CMaxClusters
            /\ \E cs \in Orders(cast.c) :
                 cast' = [cast EXCEPT !.pc = "pick",
                                      !.in = cast.in \ cast.c,
                                      !.clusters = Push(cast.clusters, cs)]
       ELSE cast' = [cast EXCEPT !.c = (cast.c \cup (IF vCloseI >= 0 THEN {vCloseI} ELSE {}))
                                        \ (IF vDistI >= 0 THEN {vDistI} ELSE {})]
  /\ UNCHANGED <<d, d0, mut, rnd, res, work>>

NextCAST ==
  \/ CallCAST
  \/ CASTPick
  \/ CASTGrow

SpecCAST == InitCAST /\ [][NextCAST]_vars

\* CAST runs as long as it has a step to take (every step of CAST changes
\* cast, the only variable a step of CAST changes besides res)
SpecCASTFair == SpecCAST /\ WF_cast(NextCAST)

---------------------------------------------------------------------------
(* The five conditions of a distance matrix, stated on the cells           *)

NotSquareC(m) == \E i \in DOMAIN m : Cardinality(DOMAIN m[i]) # Cardinality(DOMAIN m)

NegativeC(m) == \E i \in DOMAIN m : \E j \in DOMAIN m[i] : m[i][j][2] > 0 /\ m[i][j][1] < 0

AsymmetricC(m) ==
  \E i \in DOMAIN m : \E j \in DOMAIN m :
    i # j /\ (m[i][j] = NaN \/ m[j][i] = NaN \/ m[i][j] # m[j][i])

NonZeroDiagonalC(m) == \E i \in DOMAIN m : m[i][i] # F(0)

\* some ordered triple (i, j, k) has d[i][j] + d[k][j] < d[i][k]
TriangleC(m) ==
  \E i \in DOMAIN m : \E j \in DOMAIN m : \E k \in DOMAIN m :
    FLt(FAdd(m[i][j], m[k][j]), m[i][k])

FirstViolatedC(m) ==
  IF NotSquareC(m) THEN "not square"
  ELSE IF NegativeC(m) THEN "negative element"
  ELSE IF AsymmetricC(m) THEN "not symmetric"
  ELSE IF NonZeroDiagonalC(m) THEN "non-zero diagonal"
  ELSE IF TriangleC(m) THEN "triangle inequality not satisfied"
  ELSE "nil"

\* C6: Validate fails with the first violated condition in the order not
\* square, negative element, not symmetric, non-zero diagonal, triangle
\* inequality, and returns nil only if all five conditions hold.
C6_ValidateOrder ==
  res.op = "Validate" => res.err.msg = FirstViolatedC(d)

\* a matrix that is asymmetric, has a non-zero diagonal and breaks the
\* triangle inequality at once, reported as not symmetric
C6_Witness ==
  /\ res.op = "Validate"
  /\ ~NotSquareC(d) /\ ~NegativeC(d)
  /\ AsymmetricC(d) /\ NonZeroDiagonalC(d) /\ TriangleC(d)
  /\ res.err.msg = "not symmetric"

\* a valid matrix in which the caller overwrote exactly one cell, validated
SingleCellMutation ==
  /\ res.op = "Validate"
  /\ mut.kind = "cell"
  /\ FirstViolatedC(d0) = "nil"

\* C7 as stated: after a single-cell mutation of a valid matrix, every
\* condition the mutation breaks is the one Validate reports.
C7_Original ==
  SingleCellMutation =>
    /\ res.err.msg # "nil"
    /\ NegativeC(d) => res.err.msg = "negative element"
    /\ AsymmetricC(d) => res.err.msg = "not symmetric"
    /\ NonZeroDiagonalC(d) => res.err.msg = "non-zero diagonal"
    /\ TriangleC(d) => res.err.msg = "triangle inequality not satisfied"

\* C7 amended: after a single-cell mutation of a valid matrix Validate
\* fails, and it reports the first condition of its order that the mutation
\* breaks: negative element when the new value is negative, otherwise not
\* symmetric for an off-diagonal cell and non-zero diagonal for a diagonal
\* cell; the triangle inequality is never the condition reported.
C7_FirstBroken ==
  SingleCellMutation =>
    res.err.msg =
      IF mut.v[2] > 0 /\ mut.v[1] < 0 THEN "negative element"
      ELSE IF mut.i # mut.j THEN "not symmetric"
      ELSE "non-zero diagonal"

\* a mutation that breaks the triangle inequality and is reported as an
\* asymmetry
C7_Witness ==
  /\ SingleCellMutation
  /\ TriangleC(d) /\ ~NegativeC(d)
  /\ res.err.msg = "not symmetric"

\* C10 as stated: on a square matrix, symmetric or not, TriangleInequality
\* returns ok = true exactly when no ordered triple (i, j, k) has
\* d[i][j] + d[k][j] < d[i][k].
C10_AllTriples ==
  res.op = "TriangleInequality" => (res.ret.ok <=> ~TriangleC(d))

---------------------------------------------------------------------------
(* The four-point condition, stated on the three sums                      *)

\* the two largest of a, b, c are equal
TwoLargestEqual(a, b, c) ==
  \/ FEq(a, b) /\ ~FLt(a, c)
  \/ FEq(a, c) /\ ~FLt(a, b)
  \/ FEq(b, c) /\ ~FLt(b, a)

FourPointC(m, i, j, k, l) ==
  TwoLargestEqual(FAdd(m[i][j], m[k][l]), FAdd(m[i][k], m[j][l]), FAdd(m[i][l], m[j][k]))

IsAdditiveC(m) ==
  \A i \in DOMAIN m : \A j \in DOMAIN m : \A k \in DOMAIN m : \A l \in DOMAIN m :
    FourPointC(m, i, j, k, l)

\* the quadruples Additive visits, and the order it visits them in
Visited(m) ==
  {q \in Idx(m) \X Idx(m) \X Idx(m) \X Idx(m) : q[1] > q[2] /\ q[2] > q[3]}

Before(p, q) ==
  \/ p[1] < q[1]
  \/ p[1] = q[1] /\ p[2] < q[2]
  \/ p[1] = q[1] /\ p[2] = q[2] /\ p[3] < q[3]
  \/ p[1] = q[1] /\ p[2] = q[2] /\ p[3] = q[3] /\ p[4] < q[4]

Returned == <<res.ret.i, res.ret.j, res.ret.k, res.ret.l>>

\* C8 as stated: on a symmetric zero-diagonal matrix Additive returns
\* ok = true exactly when the four-point condition holds for every four
\* indices i, j, k, l.
C8_Original ==
  res.op = "Additive" => (res.ret.ok <=> IsAdditiveC(d))

\* C8 amended: the same, for a symmetric zero-diagonal matrix that has at
\* least three rows or no negative element.
C8_FourPoint ==
  (res.op = "Additive" /\ (Size(d) >= 3 \/ ~NegativeC(d)))
    => (res.ret.ok <=> IsAdditiveC(d))

\* a four-row matrix rejected at four distinct indices
C8_Witness ==
  /\ res.op = "Additive"
  /\ Size(d) = 4
  /\ ~res.ret.ok
  /\ Cardinality({res.ret.i, res.ret.j, res.ret.k, res.ret.l}) = 4

\* C9 as stated: the quadruple returned with ok = false is the first one, in
\* the order i ascending, j < i ascending, k < j ascending, l ascending,
\* for which the four-point condition fails; with ok = true all four
\* indices are 0.
C9_Original ==
  res.op = "Additive" =>
    IF res.ret.ok THEN Returned = <<0, 0, 0, 0>>
    ELSE /\ Returned \in Visited(d)
         /\ ~FourPointC(d, Returned[1], Returned[2], Returned[3], Returned[4])
         /\ \A p \in Visited(d) :
              Before(p, Returned) => FourPointC(d, p[1], p[2], p[3], p[4])

\* the three sums of quadruple p all differ and the first is below the second
PassedOver(m, p) ==
  LET s1 == FAdd(m[p[1]][p[2]], m[p[3]][p[4]])
      s2 == FAdd(m[p[1]][p[3]], m[p[2]][p[4]])
      s3 == FAdd(m[p[1]][p[4]], m[p[2]][p[3]])
  IN  s1 # s2 /\ s1 # s3 /\ s2 # s3 /\ FLt(s1, s2)

\* C9 amended: the quadruple returned with ok = false fails the four-point
\* condition and is the first one in that order that Additive's test
\* detects: every earlier quadruple either satisfies the condition or has
\* three different sums with d[i][j]+d[k][l] < d[i][k]+d[j][l], which the
\* test passes over; with ok = true all four indices are 0.
C9_FirstDetected ==
  res.op = "Additive" =>
    IF res.ret.ok THEN Returned = <<0, 0, 0, 0>>
    ELSE /\ Returned \in Visited(d)
         /\ ~FourPointC(d, Returned[1], Returned[2], Returned[3], Returned[4])
         /\ ~PassedOver(d, Returned)
         /\ \A p \in Visited(d) :
              Before(p, Returned) =>
                FourPointC(d, p[1], p[2], p[3], p[4]) \/ PassedOver(d, p)

\* a rejected matrix without negative elements in which an earlier
\* quadruple already fails the condition
C9_Witness ==
  /\ res.op = "Additive"
  /\ ~res.ret.ok
  /\ ~NegativeC(d)
  /\ \E p \in Visited(d) :
       Before(p, Returned) /\ ~FourPointC(d, p[1], p[2], p[3], p[4])

---------------------------------------------------------------------------
(* Trees, stated on the adjacency list and the weight list                 *)

\* the half edges of adjacency list tr, as <<node, position>>
HalfEdgesC(tr) == {h \in Idx(tr) \X Idx(tr) : h[2] \in Idx(tr[h[1]])}

\* every half edge u -> v with label y has exactly one mate v -> u with label
\* y, and every label of the weight list w is carried by exactly two half edges
UndirectedC(tr, w) ==
  /\ \A h \in HalfEdgesC(tr) :
       LET u == h[1]
           e == tr[u][h[2]]
       IN  /\ e.To \in Idx(tr)
           /\ e.Label \in Idx(w)
           /\ Cardinality({x \in Idx(tr[e.To]) : tr[e.To][x] = [To |-> u, Label |-> e.Label]}) = 1
  /\ \A y \in Idx(w) :
       Cardinality({h \in HalfEdgesC(tr) : tr[h[1]][h[2]].Label = y}) = 2

\* the nodes reached from the nodes of S
RECURSIVE ReachC(_, _)
ReachC(tr, S) ==
  LET T == S \cup {tr[h[1]][h[2]].To : h \in {g \in HalfEdgesC(tr) : g[1] \in S}}
  IN  IF T = S THEN S ELSE ReachC(tr, T)

\* a tree: an undirected graph that is connected and has one edge less than nodes
IsTreeC(tr, w) ==
  /\ Size(tr) >= 1
  /\ UndirectedC(tr, w)
  /\ ReachC(tr, {0}) = Idx(tr)
  /\ Size(w) = Size(tr) - 1

\* NeighborJoin has returned a tree for a matrix of n >= 3 rows
NJReturned ==
  /\ pc = "done"
  /\ res.op = "NeighborJoin"
  /\ Size(d) >= 3

\* C4 as stated: for n >= 3 leaves NeighborJoin returns 2n-2 edges, that is
\* len(wt) = 2n-2 and 2*(2n-2) half edges in the adjacency list.
C4_Original ==
  NJReturned =>
    /\ Size(res.wt) = 2 * Size(d) - 2
    /\ Cardinality(HalfEdgesC(res.u)) = 2 * (2 * Size(d) - 2)

\* C4, amended: for n >= 3 leaves NeighborJoin returns a tree of 2n-2 nodes
\* and exactly 2n-3 edges: len(wt) = 2n-3 and the adjacency list holds
\* 2*(2n-3) half edges.
C4_EdgeCount ==
  NJReturned =>
    /\ Size(res.u) = 2 * Size(d) - 2
    /\ Size(res.wt) = 2 * Size(d) - 3
    /\ Cardinality(HalfEdgesC(res.u)) = 2 * (2 * Size(d) - 3)
    /\ IsTreeC(res.u, res.wt)

\* NeighborJoin has returned for a matrix of four rows or more
C4_Witness == NJReturned /\ Size(d) >= 4

\* C5: for n >= 3 leaves the tree NeighborJoin returns is a fully resolved
\* unrooted binary tree: nodes 0..n-1 have degree 1 and every node with
\* id >= n has degree 3.
C5_Degrees ==
  NJReturned =>
    /\ Size(res.u) > Size(d)
    /\ IsTreeC(res.u, res.wt)
    /\ \A v \in Idx(res.u) : Size(res.u[v]) = IF v < Size(d) THEN 1 ELSE 3

\* NeighborJoin has returned a tree with two internal nodes or more, one of
\* them joined to another internal node
C5_Witness ==
  /\ NJReturned
  /\ \E v \in Idx(res.u) : \E x \in Idx(res.u[v]) :
       v >= Size(d) /\ res.u[v][x].To >= Size(d)

---------------------------------------------------------------------------
(* Ages of the ultrametric tree, stated on the returned lists              *)

\* Ultrametric has returned its parent list and labels
UMReturned == pc = "done" /\ res.op = "Ultrametric"

\* a valid distance matrix: none of the five conditions is violated
ValidC(mx) == FirstViolatedC(mx) = "nil"

\* the nodes of parent list p that have a parent
NonRootC(p) == {v \in Idx(p) : p[v].From # 0 - 1}

\* the age of the root is the maximum age
RootOldestC(p, u) ==
  \A r \in Idx(p) \ NonRootC(p) : \A v \in Idx(p) : ~FLt(u[r].Age, u[v].Age)

C3_AgeNeverDecreases ==
  (UMReturned /\ ValidC(d) /\ cdf \in {DAVG, DMIN}) =>
    /\ \A v \in Idx(res.ul) : \A w \in Idx(res.ul) :
         v < w => ~FLt(res.ul[w].Age, res.ul[v].Age)
    /\ \A v \in NonRootC(res.pl) : ~FLt(res.ul[v].Weight, F(0))

---------------------------------------------------------------------------
(* Path sums of the additive tree                                          *)

\* AdditiveTree has returned its graph and weight list
ATReturned == pc = "done" /\ res.op = "AdditiveTree"

\* an additive matrix: symmetric, zero diagonal, four-point condition
AdditiveMatrixC(mx) ==
  /\ ~NotSquareC(mx)
  /\ ~AsymmetricC(mx)
  /\ ~NonZeroDiagonalC(mx)
  /\ IsAdditiveC(mx)

\* the sum of w[label] along a path from a to b that avoids the nodes of
\* vis, NaN when there is no such path
RECURSIVE PathSumC(_, _, _, _, _)
PathSumC(tr, w, a, b, vis) ==
  IF a = b THEN F(0)
  ELSE LET onward == {x \in Idx(tr[a]) :
                       /\ tr[a][x].To \notin vis
                       /\ ~IsNaN(PathSumC(tr, w, tr[a][x].To, b, vis \cup {a}))}
       IN  IF onward = {} THEN NaN
           ELSE LET x == CHOOSE x \in onward : TRUE
                IN  FAdd(w[tr[a][x].Label], PathSumC(tr, w, tr[a][x].To, b, vis \cup {a}))

\* C1: for every additive matrix d with n >= 2 leaves the graph AdditiveTree
\* returns is a tree, and for every pair of leaves i, j the sum of
\* edgeWts[label] along the path from i to j equals d[i][j].
C1_PathSums ==
  (ATReturned /\ Size(d) >= 2 /\ AdditiveMatrixC(d)) =>
    /\ IsTreeC(res.u, res.edgeWts)
    /\ \A i \in Idx(d) : \A j \in Idx(d) :
         FEq(PathSumC(res.u, res.edgeWts, i, j, {}), d[i][j])

\* AdditiveTree has returned, for an additive matrix of four rows or more, a
\* tree with two internal nodes or more
C1_Witness ==
  /\ ATReturned
  /\ AdditiveMatrixC(d)
  /\ Size(d) >= 4
  /\ Size(res.u) >= Size(d) + 2

---------------------------------------------------------------------------
(* The scan of TriangleInequality, stated on the triples                   *)

\* the triples <<i, k, j>> of the scan (k below i, j any index) that violate
\* the inequality
ViolatingC(mx) ==
  {p \in Idx(mx) \X Idx(mx) \X Idx(mx) :
     /\ p[2] < p[1]
     /\ FLt(FAdd(mx[p[1]][p[3]], mx[p[2]][p[3]]), mx[p[1]][p[2]])}

\* p comes before q in the scan: i ascending, then k, then j
ScanBeforeC(p, q) ==
  \/ p[1] < q[1]
  \/ p[1] = q[1] /\ p[2] < q[2]
  \/ p[1] = q[1] /\ p[2] = q[2] /\ p[3] < q[3]

\* the first triple of V in scan order
FirstTripleC(V) == CHOOSE p \in V : \A q \in V : p = q \/ ScanBeforeC(p, q)

\* C11: TriangleInequality returns (false, i, j, k) for the first violating
\* triple in scan order (i ascending, k ascending below i, j ascending over
\* all indices) and (true, 0, 0, 0) when the scan finds none, the empty
\* matrix included; the message of Validate names the indices of that triple.
C11_FirstTriple ==
  /\ res.op = "TriangleInequality" =>
       IF ViolatingC(d) = {}
       THEN res.ret = [ok |-> TRUE, i |-> 0, j |-> 0, k |-> 0]
       ELSE LET p == FirstTripleC(ViolatingC(d))
            IN  res.ret = [ok |-> FALSE, i |-> p[1], j |-> p[3], k |-> p[2]]
  /\ (res.op = "Validate" /\ res.err.msg = "triangle inequality not satisfied") =>
       /\ ViolatingC(d) # {}
       /\ LET p == FirstTripleC(ViolatingC(d))
          IN  res.err.idx = <<p[1], p[3], p[3], p[2], p[1], p[2]>>

\* TriangleInequality has returned the first of several violating triples
C11_Witness ==
  /\ res.op = "TriangleInequality"
  /\ ~res.ret.ok
  /\ Cardinality(ViolatingC(d)) >= 2

\* C12: Symmetric returns true exactly when d[i][j] == d[j][i] for every
\* off-diagonal pair, where a NaN equals nothing: a NaN off the diagonal
\* makes it false even when the mirrored cell is NaN too, and the diagonal
\* cells are never examined.
C12_SymmetricNaN ==
  res.op = "Symmetric" =>
    /\ res.ret <=> ~AsymmetricC(d)
    /\ (\E i \in Idx(d) : \E j \in Idx(d) : i # j /\ IsNaN(d[i][j])) => ~res.ret
    /\ res.ret = Symmetric([i \in Idx(d) |-> [j \in Idx(d) |-> IF i = j THEN F(0) ELSE d[i][j]]])

\* Symmetric has returned true for a matrix with a NaN on its diagonal
C12_Witness ==
  /\ res.op = "Symmetric"
  /\ res.ret
  /\ Size(d) >= 2
  /\ \E i \in Idx(d) : IsNaN(d[i][i])

---------------------------------------------------------------------------
(* The shape of the ultrametric tree, stated on the parent list            *)

\* the children of node v in parent list p
ChildrenC(p, v) == {c \in Idx(p) : p[c].From = v}

\* the sum of the leaf counts of the nodes of S
RECURSIVE LenSumC(_, _)
LenSumC(p, S) ==
  IF S = {} THEN 0
  ELSE LET c == CHOOSE c \in S : TRUE IN p[c].Len + LenSumC(p, S \ {c})

\* C13: for a matrix of n >= 2 rows Ultrametric (DAVG or DMIN) does not
\* panic, and it returns a parent list of exactly 2n-1 nodes: nodes 0..n-1
\* are leaves with leaf count 1 and age 0, the last node is the only one with
\* parent -1, it has Weight NaN and leaf count n, and every internal node has
\* exactly two children whose leaf counts sum to its own.
C13_ParentList ==
  /\ (pc = "panic" /\ res.op = "Ultrametric") => (Size(d) < 2 \/ cdf \notin {DAVG, DMIN})
  /\ (UMReturned /\ Size(d) >= 2) =>
       LET n == Size(d)
           p == res.pl
           u == res.ul
       IN  /\ Size(p) = 2 * n - 1
           /\ Size(u) = 2 * n - 1
           /\ \A v \in 0 .. (n - 1) :
                p[v].Len = 1 /\ u[v].Age = F(0) /\ ChildrenC(p, v) = {}
           /\ Idx(p) \ NonRootC(p) = {2 * n - 2}
           /\ IsNaN(u[2 * n - 2].Weight)
           /\ p[2 * n - 2].Len = n
           /\ \A v \in n .. (2 * n - 2) :
                /\ Cardinality(ChildrenC(p, v)) = 2
                /\ LenSumC(p, ChildrenC(p, v)) = p[v].Len

\* Ultrametric has returned a tree whose root has two internal children
C13_Witness ==
  /\ UMReturned
  /\ Size(d) >= 4
  /\ \A c \in ChildrenC(res.pl, Size(res.pl) - 1) : c >= Size(d)

\* the sum of Weight along the parent chain from node v up to the root
RECURSIVE ChainSumC(_, _, _)
ChainSumC(p, u, v) ==
  IF p[v].From = 0 - 1 THEN F(0)
  ELSE FAdd(u[v].Weight, ChainSumC(p, u, p[v].From))

\* C14: in the tree Ultrametric returns every non-root node's Weight is its
\* parent's Age minus its own Age, so for every leaf the sum of Weight along
\* the parent chain up to the root equals the root's Age.
C14_Ultrametric ==
  UMReturned =>
    /\ \A v \in NonRootC(res.pl) :
         FEq(res.ul[v].Weight, FSub(res.ul[res.pl[v].From].Age, res.ul[v].Age))
    /\ \A v \in Idx(d) :
         FEq(ChainSumC(res.pl, res.ul, v), res.ul[Size(res.pl) - 1].Age)

\* Ultrametric has returned a tree in which a leaf lies three edges below the
\* root and an internal node has a positive age and a positive weight
C14_Witness ==
  /\ UMReturned
  /\ \E v \in Idx(d) :
       /\ res.pl[v].From # 0 - 1
       /\ res.pl[res.pl[v].From].From # 0 - 1
       /\ res.pl[res.pl[res.pl[v].From].From].From # 0 - 1
  /\ \E v \in NonRootC(res.pl) :
       FGt(res.ul[v].Age, F(0)) /\ FGt(res.ul[v].Weight, F(0))

---------------------------------------------------------------------------
(* Claims about the builders' handling of their arguments                  *)

\* Ultrametric or UltrametricD has ended, by returning or by panicking
UMEndedC == pc \in {"done", "panic"} /\ res.op = "Ultrametric"

\* C15: on a matrix of two or more rows, a call of Ultrametric or
\* UltrametricD with a linkage other than DAVG and DMIN ends in a panic and
\* returns no tree.
C15_InvalidLinkagePanics ==
  (UMEndedC /\ Size(d) >= 2 /\ cdf \notin {DAVG, DMIN}) => pc = "panic"

FiniteC(mx) == \A i \in Idx(mx) : \A j \in Idx(mx[i]) : IsFinite(mx[i][j])

\* a square matrix of finite numbers with three or more rows that Validate
\* rejects
InvalidInputC(mx) ==
  /\ Size(mx) >= 3
  /\ Square(mx)
  /\ FiniteC(mx)
  /\ ~ValidC(mx)

\* C17: called on a square matrix of finite numbers with three or more rows
\* that fails Validate, a builder with a supported argument never panics.
C17_NoPanicOnInvalid ==
  (InvalidInputC(d) /\ (res.op = "Ultrametric" => cdf \in {DAVG, DMIN})) => pc # "panic"

---------------------------------------------------------------------------
(* Claims about AdditiveTree on particular matrices                        *)

\* the adjacency list with the lists of (To, Label) pairs rows
AdjacencyC(rows) ==
  [v \in 0 .. (Len(rows) - 1) |->
    [x \in 0 .. (Len(rows[v + 1]) - 1) |->
      Half(rows[v + 1][x + 1][1], rows[v + 1][x + 1][2])]]

\* C18: for the matrix {{0,13,21,22},{13,0,12,13},{21,12,0,13},{22,13,13,0}}
\* AdditiveTree returns six nodes and the five edges 1-4 (label 0, weight 2),
\* 0-4 (label 1, weight 11), 2-5 (label 2, weight 6), 4-5 (label 3, weight 4)
\* and 3-5 (label 4, weight 7), node 4 listing its neighbours in the order
\* 1, 0, 5 and node 5 in the order 2, 4, 3.
C18_Example ==
  (ATReturned /\ d = ExampleAdditive) =>
    /\ res.u = AdjacencyC(<< << <<4, 1>> >>,
                             << <<4, 0>> >>,
                             << <<5, 2>> >>,
                             << <<5, 4>> >>,
                             << <<1, 0>>, <<0, 1>>, <<5, 3>> >>,
                             << <<2, 2>>, <<4, 3>>, <<3, 4>> >> >>)
    /\ res.edgeWts = [y \in 0 .. 4 |-> F(<<2, 11, 6, 4, 7>>[y + 1])]

\* AdditiveTree has returned for the matrix of the example
C18_Witness == ATReturned /\ d = ExampleAdditive /\ Size(res.u) = 6 /\ Size(res.edgeWts) = 5

---------------------------------------------------------------------------
(* Claims about RandomAdditiveMatrix                                       *)

\* RandomAdditiveMatrix has returned the caller's matrix
GeneratedC == rnd.n >= 2 /\ d # <<>>

\* C19: for n >= 2, whatever tree and edge weights are drawn, the matrix
\* RandomAdditiveMatrix(n) returns has n rows of n cells, is symmetric with a
\* zero diagonal, and Additive returns ok = true on it.
C19_RandomAdditive ==
  GeneratedC =>
    /\ Size(d) = rnd.n
    /\ Square(d)
    /\ \A i \in Idx(d) : \A j \in Idx(d) : FEq(d[i][j], d[j][i])
    /\ \A i \in Idx(d) : FEq(d[i][i], F(0))
    /\ res.op = "Additive" => res.ret.ok

\* Additive has answered for a generated matrix of four leaves with two inner
\* nodes below the root, and two of the distances differ
C19_Witness ==
  /\ GeneratedC
  /\ res.op = "Additive"
  /\ res.ret.ok
  /\ rnd.n = 4
  /\ Size(rnd.pl) = 6
  /\ \E i, j, k \in Idx(d) : i # j /\ i # k /\ ~FEq(d[i][j], d[i][k])

---------------------------------------------------------------------------
(* Claims about the shape of the tree AdditiveTree returns                 *)

\* AdditiveTree has returned for an additive matrix of three rows or more
ATShapeC == ATReturned /\ Size(d) >= 3 /\ AdditiveMatrixC(d)

---------------------------------------------------------------------------
(* Claims about CAST                                                       *)

\* CAST has returned
CASTReturned == cast.pc = "done" /\ res.op = "CAST"

\* the places <<x, y>> of the clusters cl
PlacesC(cl) == {q \in Idx(cl) \X (0 .. CMaxN) : q[2] \in Idx(cl[q[1]])}

\* cl is a partition of 0..n-1: no cluster is empty, every entry is an index
\* and every index stands at exactly one place
PartitionC(cl, n) ==
  /\ \A x \in Idx(cl) : Size(cl[x]) > 0
  /\ \A q \in PlacesC(cl) : cl[q[1]][q[2]] \in 0 .. (n - 1)
  /\ \A i \in 0 .. (n - 1) : Cardinality({q \in PlacesC(cl) : cl[q[1]][q[2]] = i}) = 1

\* C21: for every square similarity matrix and every threshold, CAST
\* terminates and what it returns is a partition of the indices
\* 0..len(sim)-1 with no empty cluster.
C21_TerminatesWithPartition ==
  <>(CASTReturned /\ PartitionC(res.clusters, Size(cast.sim)))

---------------------------------------------------------------------------
(* Claims about the linkage of Ultrametric                                 *)

\* a symmetric zero-diagonal non-negative square matrix
LinkageInputC(mx) ==
  ~NotSquareC(mx) /\ ~NegativeC(mx) /\ ~AsymmetricC(mx) /\ ~NonZeroDiagonalC(mx)

\* node l of parent list p is node v or lies below it
RECURSIVE UnderC(_, _, _)
UnderC(p, l, v) ==
  l = v \/ (p[l].From # 0 - 1 /\ UnderC(p, p[l].From, v))

\* the leaves (of the n leaves) of parent list p at or below node v
LeavesC(p, n, v) == {l \in 0 .. (n - 1) : UnderC(p, l, v)}

\* the cells of mx over the leaf pairs across the clusters A and B
AcrossC(mx, A, B) == {mx[q[1]][q[2]] : q \in A \X B}

\* the single-linkage distance of the clusters A and B: the minimum of mx
\* over the leaf pairs across them
SingleLinkC(mx, A, B) ==
  CHOOSE m \in AcrossC(mx, A, B) : \A o \in AcrossC(mx, A, B) : ~FLt(o, m)

\* C22: with DMIN on a symmetric zero-diagonal non-negative matrix every
\* merge joins two clusters at their single-linkage distance (the minimum of
\* the original distances over the leaf pairs across the two clusters): the
\* age of every merged node is half that distance.
C22_SingleLinkageAges ==
  (UMReturned /\ cdf = DMIN /\ LinkageInputC(d)) =>
    \A v \in Idx(res.pl) : v >= Size(d) =>
      \E a \in ChildrenC(res.pl, v) : \E b \in ChildrenC(res.pl, v) :
        /\ a < b
        /\ FEq(res.ul[v].Age,
               FDiv(SingleLinkC(d, LeavesC(res.pl, Size(d), a),
                                   LeavesC(res.pl, Size(d), b)), F(2)))

\* the sum of mx over the leaf pairs of the set Q
RECURSIVE PairSumC(_, _)
PairSumC(mx, Q) ==
  IF Q = {} THEN F(0)
  ELSE LET q == CHOOSE q \in Q : TRUE
       IN  FAdd(mx[q[1]][q[2]], PairSumC(mx, Q \ {q}))

\* the mean of mx over the leaf pairs across the clusters A and B
MeanAcrossC(mx, A, B) ==
  FDiv(PairSumC(mx, A \X B), F(Cardinality(A) * Cardinality(B)))

\* the live matrix indices during the merge loop
LiveC == {clusters[p] : p \in Idx(clusters)}

\* the leaves of the cluster that matrix index i stands for
ClusterLeavesC(i) == LeavesC(pl, Size(d), cx[i])

\* Ultrametric with DAVG runs or has returned on a symmetric zero-diagonal
\* non-negative matrix
AverageRunC == cdf = DAVG /\ LinkageInputC(d) /\ res.op \in {"none", "Ultrametric"}

\* C23: with DAVG on a symmetric zero-diagonal non-negative matrix, after
\* every merge the distance between two live clusters is stored in both
\* cells and is the mean of the original distances over the leaf pairs
\* across them (the count-weighted average of the two merged rows); every
\* merged node's age is half the mean of the original distances over the
\* leaf pairs across its two children; the 4x4 example gets ages 5, 7, 53/6.
C23_AverageLinkage ==
  /\ (pc = "um" /\ AverageRunC) =>
       \A i \in LiveC : \A j \in LiveC \ {i} :
         /\ FEq(dm[i][j], MeanAcrossC(d, ClusterLeavesC(i), ClusterLeavesC(j)))
         /\ FEq(dm[i][j], dm[j][i])
  /\ (UMReturned /\ AverageRunC) =>
       \A v \in Idx(res.pl) : v >= Size(d) =>
         \E a \in ChildrenC(res.pl, v) : \E b \in ChildrenC(res.pl, v) :
           /\ a < b
           /\ FEq(res.ul[v].Age,
                  FDiv(MeanAcrossC(d, LeavesC(res.pl, Size(d), a),
                                      LeavesC(res.pl, Size(d), b)), F(2)))
  /\ (UMReturned /\ cdf = DAVG /\ d = ExampleUltrametric) =>
       /\ res.ul[4].Age = F(5)
       /\ res.ul[5].Age = F(7)
       /\ res.ul[6].Age = Rat(53, 6)

\* DAVG has returned on the example, and on a matrix of four rows a merge
\* has joined a cluster of two leaves with another cluster
C23_Witness ==
  /\ UMReturned
  /\ cdf = DAVG
  /\ d = ExampleUltrametric
  /\ res.pl[4].Len = 2
  /\ res.pl[5].Len = 3
  /\ res.ul[1].Weight = Rat(53, 6)

---------------------------------------------------------------------------
(* Claims about the pair that a merge selects                              *)

\* the live pairs i < j, the pairs closest compares
LivePairsC == {q \in LiveC \X LiveC : q[1] < q[2]}

\* the live pairs whose cell of the working matrix is below +Inf and is the
\* minimum over the live pairs
MinPairsC ==
  {q \in LivePairsC :
     /\ FLt(dm[q[1]][q[2]], PosInf)
     /\ \A o \in LivePairsC : ~FLt(dm[o[1]][o[2]], dm[q[1]][q[2]])}

\* the position of live index i in the clusters list
PosC(i) == CHOOSE p \in Idx(clusters) : clusters[p] = i

\* pair q comes before pair o in the scan of the clusters list
ListBeforeC(q, o) ==
  \/ PosC(q[1]) < PosC(o[1])
  \/ PosC(q[1]) = PosC(o[1]) /\ PosC(q[2]) < PosC(o[2])

\* pair q comes before pair o in row-major order of the indices
RowMajorBeforeC(q, o) == q[1] < o[1] \/ (q[1] = o[1] /\ q[2] < o[2])

\* the pairs (d1, d2) that the merge step being taken can have selected: the
\* two clusters are those that get the new node as parent; when the loop goes
\* on, d1 is the index that stands for the new node and d2 the index that
\* leaves the clusters list (a step that ends the call shows no order)
SelectedC ==
  {q \in LiveC \X LiveC :
     /\ q[1] # q[2]
     /\ pl'[cx[q[1]]].From = Size(pl)
     /\ pl'[cx[q[2]]].From = Size(pl)
     /\ IF pc' = "um"
        THEN /\ cx'[q[1]] = Size(pl)
             /\ q[2] \notin {clusters'[p] : p \in Idx(clusters')}
        ELSE q[1] < q[2]}

\* a step of the merge loop that creates a node
MergeStepC == pc = "um" /\ res.op = "none" /\ Size(pl') = Size(pl) + 1

\* C24 as stated: the selected pair d1 < d2 has the minimum distance among
\* live pairs and, of the pairs that share the minimum, is the first in
\* row-major order of the indices, at every iteration.
C24_Original ==
  [][MergeStepC =>
       \E q \in MinPairsC :
         /\ SelectedC = {q}
         /\ \A o \in MinPairsC \ {q} : RowMajorBeforeC(q, o)]_vars

\* C24, amended: the selected pair d1 < d2 has the minimum cell dm[d1][d2]
\* among live pairs and, of the pairs that share the minimum, is the first in
\* the order of the clusters list (outer loop and inner loop both run over
\* the list, whose order is no longer ascending once a merge has moved the
\* last entry into the place of d2).
C24_FirstInListOrder ==
  [][MergeStepC =>
       \E q \in MinPairsC :
         /\ SelectedC = {q}
         /\ \A o \in MinPairsC \ {q} : ListBeforeC(q, o)]_vars

\* the merge loop stands, after a merge on four rows, at a tie whose first
\* pair in list order is not the first in row-major order
C24_Witness ==
  /\ pc = "um"
  /\ Size(d) = 4
  /\ Size(clusters) = 3
  /\ \E q \in MinPairsC : \E o \in MinPairsC :
       ListBeforeC(q, o) /\ RowMajorBeforeC(o, q)

---------------------------------------------------------------------------
(* Claims about the length of the merge loop                               *)

\* Ultrametric was called with DAVG or DMIN on a matrix of finite numbers
\* with two rows or more
MergeRunC ==
  /\ res.op \in {"none", "Ultrametric"}
  /\ Size(d) >= 2
  /\ FiniteC(d)
  /\ cdf \in {DAVG, DMIN}

\* the merges made so far: one node per merge
MergesC == Size(pl) - Size(d)

\* the matrix index that the step being taken removes from the live set
RemovedC == LiveC \ {clusters'[p] : p \in Idx(clusters')}

\* the live set while the merge loop runs, and the outcome of the call
MergeCountC ==
  /\ (pc = "um" /\ MergeRunC) =>
       /\ Size(clusters) = Cardinality(LiveC)
       /\ Cardinality(LiveC) = Size(d) - MergesC
       /\ Cardinality(LiveC) >= 2
       /\ (MergesC = 0 => LiveC = Idx(d))
       /\ MinPairsC # {}
  /\ (pc = "panic" /\ res.op = "Ultrametric") =>
       (Size(d) < 2 \/ cdf \notin {DAVG, DMIN})
  /\ (UMReturned /\ Size(d) >= 2 /\ FiniteC(d)) =>
       Size(res.pl) - Size(d) = Size(d) - 1

\* one iteration of the merge loop
OneIndexPerMergeC ==
  (pc = "um" /\ MergeRunC) =>
    /\ Size(pl') = Size(pl) + 1
    /\ IF Size(clusters) = 2
       THEN pc' = "done" /\ clusters' = clusters
       ELSE /\ pc' = "um"
            /\ Size(clusters') = Size(clusters) - 1
            /\ \E d2 \in LiveC :
                 /\ RemovedC = {d2}
                 /\ pl'[cx[d2]].From = Size(pl)
                 /\ \E d1 \in LiveC \ {d2} :
                      /\ d1 < d2
                      /\ pl'[cx[d1]].From = Size(pl)
                      /\ cx' = [cx EXCEPT ![d1] = Size(pl)]

\* C25: on a matrix of finite numbers with n >= 2 rows Ultrametric (DAVG or
\* DMIN) returns after exactly n-1 merges.  The live set starts with the n
\* indices; while the loop runs it holds n minus the number of merges made,
\* at least two, and closest finds a pair to merge; an iteration that begins
\* with more than two live clusters makes one merge, removes exactly one
\* index, d2, and lets the smaller index d1 stand for the new node; the
\* iteration that begins with exactly two live clusters makes the last
\* merge and returns; the call does not panic.
C25_MergeCount == []MergeCountC /\ [][OneIndexPerMergeC]_vars

\* DMIN has returned on four rows after three merges
C25_Witness ==
  /\ UMReturned
  /\ cdf = DMIN
  /\ FiniteC(d)
  /\ Size(d) = 4
  /\ Size(res.pl) = 7

---------------------------------------------------------------------------
(* Claims about the pair that neighbor joining selects                     *)

\* the sum of the cells of row over the index set S
RECURSIVE CellSumC(_, _)
CellSumC(row, S) ==
  IF S = {} THEN F(0)
  ELSE LET j == CHOOSE j \in S : TRUE
       IN  FAdd(row[j], CellSumC(row, S \ {j}))

\* td: the row sums of the current (reduced) matrix
TdC == [i \in Idx(dm) |-> CellSumC(dm[i], Idx(dm[i]))]

\* the pairs of the scan: i from 1, j below i
ScanPairsC == {q \in Idx(dm) \X Idx(dm) : q[2] < q[1]}

\* Q(i, j) = (m-2)*d[i][j] - td[i] - td[j] on the current matrix of m rows,
\* for every pair of the scan, from the row sums tdv
QC(tdv) ==
  [q \in ScanPairsC |->
     FSub(FSub(FMul(F(Size(dm) - 2), dm[q[1]][q[2]]), tdv[q[1]]), tdv[q[2]])]

\* the pairs of minimal Q, from the table qt
MinQC(qt) == {q \in DOMAIN qt : \A o \in DOMAIN qt : ~FLt(qt[o], qt[q])}

\* pair q comes before pair o in the scan
ScanFirstC(q, o) == q[1] < o[1] \/ (q[1] = o[1] /\ q[2] < o[2])

\* a reduction step of nj: the step leaves a call of nj waiting for its
\* recursive call
ReduceStepC == pc = "nj" /\ Len(frames') = Len(frames) + 1

\* C26: at every reduction step of NeighborJoin, on a symmetric matrix of
\* m >= 3 live rows, the joined pair (d1 < d2) minimizes Q(i,j) =
\* (m-2)*d[i][j] - td[i] - td[j] over the live pairs, td being the row sums of
\* the current matrix; of the pairs of minimal Q the first in scan order (i
\* ascending from 1, j ascending below i) is joined, and the limbs get the
\* weights (d[d1][d2] - delta)/2 and (d[d1][d2] + delta)/2 with
\* delta = (td[d2] - td[d1])/(m-2).
C26_QCriterion ==
  [][(ReduceStepC /\ ~AsymmetricC(dm)) =>
       /\ Size(dm) >= 3
       /\ \E tdv \in {TdC} : \E mq \in {MinQC(QC(tdv))} : \E q \in mq :
            LET d2 == q[1]
                d1 == q[2]
                f == frames'[Len(frames')]
                delta == FDiv(FSub(tdv[d2], tdv[d1]), F(Size(dm) - 2))
            IN  /\ \A o \in mq \ {q} : ScanFirstC(q, o)
                /\ d1 < d2
                /\ f.n1 = nx[d1]
                /\ f.n2 = nx[d2]
                /\ f.ll1 = FDiv(FSub(dm[d1][d2], delta), F(2))
                /\ f.ll2 = FDiv(FAdd(dm[d1][d2], delta), F(2))
                /\ nx'[d1] = f.m]_vars

\* the first reduction on a symmetric matrix of four rows has joined a pair
\* of leaves that is not a pair of least distance
C26_Witness ==
  /\ res.op = "none"
  /\ Len(frames) = 1
  /\ Size(d) = 4
  /\ ~AsymmetricC(d)
  /\ \E i \in Idx(d) : \E j \in Idx(d) :
       i # j /\ FLt(d[i][j], d[frames[1].n2][frames[1].n1])

---------------------------------------------------------------------------
(* Claims about the insertions of AdditiveTree                             *)

\* ap has inserted leaf 1 (the base case) or a later leaf, and the tree
\* stands as that insertion left it
InsertedC == (pc = "ap" /\ leaf >= 2) \/ ATReturned

\* the search of the insertion that comes next, as it returns to ap
NextSearchC ==
  LET lw == limbWeightSubMatrix(d, leaf)
  IN  FSearch([t |-> t, w |-> edgeWts, x |-> FSub(d[lw.i][leaf], lw.wt),
               vis |-> {}, p |-> 0 - 1], lw.k, lw.i)

\* C27: after the base case and after every completed insertion of a leaf
\* the adjacency list is a consistent undirected graph: every half-edge
\* (u -> v, label y) has exactly one mate (v -> u, label y) and every label
\* of edgeWts is carried by exactly two half-edges; the same holds when the
\* search returns to ap, so a split has redirected both halves of the old
\* edge before that.
C27_ConsistentAdjacency ==
  /\ InsertedC => UndirectedC(t, edgeWts)
  /\ (pc = "ap" /\ leaf >= 2) =>
       \E r \in {NextSearchC} : r.p >= 0 => UndirectedC(r.t, r.w)

\* an insertion that split an edge is complete, and the next search is about
\* to split an edge as well
C27_Witness ==
  /\ pc = "ap"
  /\ leaf >= 3
  /\ Size(t) > Size(d)
  /\ Size(NextSearchC.t) > Size(t)

\* node v lies on the path from a to b in the tree tr: it is an end of the
\* path, or no path from a to b avoids it
OnPathC(tr, w, a, b, v) == v \in {a, b} \/ IsNaN(PathSumC(tr, w, a, b, {v}))

\* nodes a and b are joined by an edge of tr
AdjacentC(tr, a, b) == \E x \in Idx(tr[a]) : tr[a][x].To = b

\* a step of ap that inserts a leaf after the base case, on additive input
InsertStepC == pc = "ap" /\ leaf > 1 /\ AdditiveMatrixC(d)

\* the insertion being made: leaf n, searched from k = n-1 towards i, gets
\* the connection node v
InsertionC ==
  /\ pc' # "panic"
  /\ Size(t') - Size(t) \in {0, 1}
  /\ Size(edgeWts') - Size(edgeWts) = Size(t') - Size(t) + 1
  /\ \E i \in {limbWeightSubMatrix(d, leaf).i} : \E v \in {t'[leaf][0].To} :
       /\ i < leaf - 1
       /\ OnPathC(t', edgeWts', leaf - 1, i, v)
       /\ IF Size(t') = Size(t)
          THEN \* an existing node
               /\ v < Size(t)
               /\ OnPathC(t, edgeWts, leaf - 1, i, v)
          ELSE \* one new node, inside an edge of the path
               /\ v = Size(t)
               /\ \E a \in Idx(t) : \E b \in Idx(t) :
                    /\ a # b
                    /\ AdjacentC(t, a, b)
                    /\ OnPathC(t, edgeWts, leaf - 1, i, a)
                    /\ OnPathC(t, edgeWts, leaf - 1, i, b)
                    /\ {t'[v][x].To : x \in Idx(t'[v])} = {a, b, leaf}
                    /\ ~AdjacentC(t', a, b)

\* the size of the tree while it is built and when it is returned
TreeSizeC ==
  /\ (InsertedC /\ AdditiveMatrixC(d)) =>
       /\ Size(t) <= Size(d) + leaf - 2
       /\ Size(edgeWts) = Size(t) - (Size(d) - leaf) - 1
  /\ (ATReturned /\ AdditiveMatrixC(d)) =>
       /\ Size(res.u) <= 2 * Size(d) - 2
       /\ Size(res.edgeWts) = Size(res.u) - 1

\* C28: for additive input each insertion of a leaf n >= 2 finds a connection
\* node (the search does not return -1) on the path between leaf k = n-1 and
\* the chosen leaf i in the tree built so far: an existing node of that path,
\* or one new node placed inside an edge of that path; an insertion creates
\* at most one internal node, so the returned tree on len(d) leaves has at
\* most 2*len(d)-2 nodes and exactly one edge less than nodes.
C28_ConnectionNode == []TreeSizeC /\ [][InsertStepC => InsertionC]_vars

\* on additive input of four rows one insertion has created an internal node
\* and another has attached its leaf to an existing node
C28_Witness ==
  /\ ATReturned
  /\ AdditiveMatrixC(d)
  /\ Size(d) = 4
  /\ Size(res.u) = 5

\* a step of ap that splits an edge: the search appends a node
SplitStepC == pc = "ap" /\ leaf > 1 /\ Size(t') = Size(t) + 1

\* the split being made: the new node v keeps the old label on its first
\* half-edge (to u, the end of the old edge on the side of k) and carries a
\* new label on its second (to w, the end on the side of i); the old weight W
\* is divided in W - x and x
SplitWeightsC ==
  \E v \in {Size(t)} : \E y \in {Size(edgeWts)} : \E lab \in {t'[v][0].Label} :
    /\ lab < y
    /\ t'[v][1].Label = y
    /\ AdjacentC(t, t'[v][0].To, t'[v][1].To)
    /\ FGt(edgeWts'[lab], F(0))
    /\ FGt(edgeWts'[y], F(0))
    /\ FEq(FAdd(edgeWts'[lab], edgeWts'[y]), edgeWts[lab])
    /\ \A l \in Idx(edgeWts) \ {lab} : edgeWts'[l] = edgeWts[l]

\* the path sums between the leaves inserted before are those of before
PathSumsKeptC ==
  \A a \in 0 .. (leaf - 1) : \A b \in 0 .. (leaf - 1) :
    /\ ~IsNaN(PathSumC(t, edgeWts, a, b, {}))
    /\ PathSumC(t', edgeWts', a, b, {}) = PathSumC(t, edgeWts, a, b, {})

\* C29: on additive input (AdditiveTree requires it; no distance is negative),
\* when an insertion splits an edge of weight W at offset x the two
\* replacement edges have the weights W - x (old label) and x (new label),
\* both positive and summing to W, no other weight changes, and every
\* insertion leaves the path sum between every pair of leaves inserted before
\* as it was.
C29_SplitPreservesPaths ==
  [][(InsertStepC /\ ~NegativeC(d)) =>
       /\ SplitStepC => SplitWeightsC
       /\ PathSumsKeptC]_vars

\* an insertion into a tree that already has an internal node has split an
\* edge, on additive input of four rows
C29_Witness ==
  /\ pc \in {"ap", "done"}
  /\ res.op \in {"none", "AdditiveTree"}
  /\ leaf = 4
  /\ AdditiveMatrixC(d)
  /\ ~NegativeC(d)
  /\ Size(t) = 6

---------------------------------------------------------------------------
(* Claims about the tree of NeighborJoin on additive input                 *)

\* an additive matrix of three rows or more whose distances between
\* different leaves are all positive
PositiveAdditiveC(mx) ==
  /\ Size(mx) >= 3
  /\ AdditiveMatrixC(mx)
  /\ \A i \in Idx(mx) : \A j \in Idx(mx) \ {i} : FGt(mx[i][j], F(0))

\* the returned tree and weight list reproduce the matrix
ReproducesC ==
  (NJReturned /\ PositiveAdditiveC(d)) =>
    /\ IsTreeC(res.u, res.wt)
    /\ \A i \in Idx(d) : \A j \in Idx(d) :
         FEq(PathSumC(res.u, res.wt, i, j, {}), d[i][j])

\* a reduction step: the two limb weights sum to the distance of the joined
\* pair in the current matrix
LimbSumC ==
  (ReduceStepC /\ PositiveAdditiveC(d)) =>
    \E f \in {frames'[Len(frames')]} :
      \E q \in ScanPairsC :
        /\ nx[q[2]] = f.n1
        /\ nx[q[1]] = f.n2
        /\ FEq(FAdd(f.ll1, f.ll2), dm[q[1]][q[2]])
        /\ FEq(dm[q[1]][q[2]], dm[q[2]][q[1]])

\* a join step: the two limb weights of the waiting call are appended to wt
\* and label the edges from its node m to the joined pair
LimbsAttachedC ==
  (pc = "join" /\ PositiveAdditiveC(d)) =>
    \E f \in {frames[Len(frames)]} : \E wx1 \in {Size(wt)} :
      /\ Size(wt') = wx1 + 2
      /\ wt'[wx1] = f.ll1
      /\ wt'[wx1 + 1] = f.ll2
      /\ \A l \in Idx(wt) : wt'[l] = wt[l]
      /\ \E x \in Idx(tree'[f.m]) : tree'[f.m][x] = Half(f.n1, wx1)
      /\ \E x \in Idx(tree'[f.m]) : tree'[f.m][x] = Half(f.n2, wx1 + 1)

\* C30: for every additive matrix with n >= 3 leaves and positive distances
\* between different leaves, the tree and weight list NeighborJoin returns
\* reproduce the matrix (the sum of wt[label] along the path between leaves i
\* and j is d[i][j]), and the two limb weights attached at each join sum to
\* the distance between the joined pair in the matrix at the time of the join.
C30_ReproducesMatrix ==
  []ReproducesC /\ [][LimbSumC /\ LimbsAttachedC]_vars

\* NeighborJoin has returned on an additive matrix of four rows with positive
\* distances that are not all equal
C30_Witness ==
  /\ NJReturned
  /\ PositiveAdditiveC(d)
  /\ Size(d) = 4
  /\ \E i \in Idx(d) : \E j \in Idx(d) : FLt(d[0][1], d[i][j])

====
